---- MODULE Spec2Model ----
(***************************************************************************)
(* lydia-device gateway: command policy, serial msh session, audit log and *)
(* websocket client handler, modelled from src/src/lydia_device.           *)
(*                                                                         *)
(* Text is a sequence of characters, so that strip(), split(), lower() and *)
(* the "in" tests of policy.py are computed character by character. A      *)
(* character of Latin-1 (U+0000 to U+00FF) is the string that holds it; a  *)
(* character beyond is the string of its code point name, as "U+2028"      *)
(* (four to six upper-case hexadecimal digits); so is the grave accent,    *)
(* "U+0060", which a string of TLA+ cannot hold. The character classes and *)
(* the case mapping are those of the Unicode database of the interpreter   *)
(* (version 14.0): beyond Latin-1 they are given as ranges of code points. *)
(***************************************************************************)
EXTENDS Integers, Sequences, FiniteSets, TLC

(***************************************************************************)
(* Bounds of the model.                                                    *)
(***************************************************************************)
\* number of fragments a policy input is concatenated from
MaxFrags == 3
\* number of client connections (tasks are the clients and the polling loops)
NumClients == 2
\* total number of exec calls made on the session
MaxExecs == 3
\* total number of exec calls made on the session of the whole server
MaxServerExecs == 2
\* total number of exec calls where every task is scheduled fairly
MaxFairExecs == 2
\* largest AuditConfig.max_queue and flush_every tried
MaxQueue == 2
MaxFlush == 2
\* number of log() calls made on the logger taken alone
MaxEvents == 4
\* frames one client sends on its connection
MaxFrames == 1
NumHandlers == 1
MaxPolls == 2
MaxBroadcasts == 3
HandlerFrames == 2
\* lines in a text given to a parser
MaxLines == 2
\* parts after the first of a feeder_mode line given to parse_process_block
MaxParts == 4

(***************************************************************************)
(* policy.py                                                               *)
(***************************************************************************)

BLOCKED_VERBS ==
    { <<"o", "n", "k", "e", "y">>,
      <<"o", "f", "f", "k", "e", "y">>,
      <<"l", "a", "s", "e", "r", "_", "e", "n">>,
      <<"c", "o", "n", "t", "i", "n", "u", "o", "u", "s">>,
      <<"p", "u", "l", "s", "e">>,
      <<"p", "o", "w", "e", "r">>,
      <<"l", "a", "s", "e", "r", "d", "a", "c">>,
      <<"d", "r", "i", "v", "e", "d", "c">>,
      <<"p", "i", "l", "o", "t">>,
      <<"p", "i", "l", "o", "t", "d", "a", "c">>,
      <<"p", "i", "l", "o", "t", "i">>,
      <<"f", "e", "e", "d", "e", "r", "o", "n">>,
      <<"f", "e", "e", "d", "e", "r", "o", "f", "f">>,
      <<"f", "e", "e", "d", "e", "r", "m", "o", "v", "e">>,
      <<"o", "u", "t", "s", "t", "a", "r", "t">>,
      <<"o", "u", "t", "s", "t", "o", "p">>,
      <<"i", "n", "s", "t", "a", "r", "t">>,
      <<"i", "n", "s", "t", "o", "p">>,
      <<"w", "r", "i", "t", "e", "i", "o">>,
      <<"w", "r", "i", "t", "e", "a", "l", "l">>,
      <<"r", "e", "b", "o", "o", "t">>,
      <<"d", "o", "w", "n", "l", "o", "a", "d">>,
      <<"c", "h", "g", "b", "o", "o", "t">>,
      <<"s", "e", "t", "p", "r", "o", "c", "e", "s", "s">>,
      <<"a", "p", "p", "l", "y", "p", "r", "o">> }

SAFE_GETTERS ==
    { <<"s", "t", "a", "t", "u", "s">>,
      <<"w", "o", "r", "k", "t", "i", "m", "e">>,
      <<"w", "a", "r", "n", "i", "n", "g">>,
      <<"e", "r", "r", "o", "r">>,
      <<"l", "o", "c", "k">>,
      <<"m", "o", "d", "e">>,
      <<"s", "t", "a", "t", "e">>,
      <<"s", "u", "b", "s", "t", "a", "t", "u", "s">>,
      <<"g", "e", "t", "a", "l", "l">>,
      <<"c", "u", "r", "_", "p", "r", "o">>,
      <<"f", "e", "e", "d", "e", "r", "_", "p", "r", "o">>,
      <<"m", "a", "x", "p", "o", "w", "e", "r">>,
      <<"t", "e", "m", "p">>,
      <<"p", "r", "e", "s">>,
      <<"p", "r", "e", "s", "s", "u", "r", "e">>,
      <<"v", "e", "r", "s", "i", "o", "n">>,
      <<"h", "e", "l", "p">>,
      <<"f", "r", "e", "e">>,
      <<"p", "s">>,
      <<"l", "i", "s", "t", "_", "d", "e", "v", "i", "c", "e">> }

SAFE_SETTERS_REQUIRE_PARAMS ==
    { <<"m", "a", "x", "p", "o", "w", "e", "r">>,
      <<"r", "i", "s", "e", "t", "k">>,
      <<"f", "a", "l", "l", "t", "k">>,
      <<"g", "a", "s", "e", "a", "t", "k">>,
      <<"g", "a", "s", "l", "a", "t", "k">>,
      <<"o", "n", "w", "a", "t", "k">>,
      <<"o", "f", "f", "w", "a", "t", "k">>,
      <<"f", "a", "n">>,
      <<"f", "a", "n", "o", "n">>,
      <<"f", "a", "n", "d", "u", "t", "y">>,
      <<"f", "a", "n", "t", "e", "m", "p">>,
      <<"i", "n", "t", "e", "r", "t", "i", "m", "e", "o", "u", "t">> }


Range(seq) == {seq[i] : i \in DOMAIN seq}

\* F applied to the value v, which is computed once
With(v, F(_)) == CHOOSE y \in {F(x) : x \in {v}} : TRUE

\* the characters str.strip() and str.split() treat as whitespace, those of
\* str.isspace(), which are also those \s matches
Whitespace ==
    { "\t", "\n", "", "\f", "\r", "", "", "", "", " ", "", " ",
      "U+1680", "U+2000", "U+2001", "U+2002", "U+2003", "U+2004", "U+2005",
      "U+2006", "U+2007", "U+2008", "U+2009", "U+200A", "U+2028", "U+2029",
      "U+202F", "U+205F", "U+3000" }

UpperAlpha == <<"A","B","C","D","E","F","G","H","I","J","K","L","M",
                "N","O","P","Q","R","S","T","U","V","W","X","Y","Z">>
LowerAlpha == <<"a","b","c","d","e","f","g","h","i","j","k","l","m",
                "n","o","p","q","r","s","t","u","v","w","x","y","z">>

\* the other upper-case letters of Latin-1 and their lower-case letters
UpperLatin ==
    << "À", "Á", "Â", "Ã", "Ä", "Å", "Æ", "Ç", "È", "É", "Ê", "Ë", "Ì", "Í",
       "Î", "Ï", "Ð", "Ñ", "Ò", "Ó", "Ô", "Õ", "Ö", "Ø", "Ù", "Ú", "Û", "Ü",
       "Ý", "Þ" >>
LowerLatin ==
    << "à", "á", "â", "ã", "ä", "å", "æ", "ç", "è", "é", "ê", "ë", "ì", "í",
       "î", "ï", "ð", "ñ", "ò", "ó", "ô", "õ", "ö", "ø", "ù", "ú", "û", "ü",
       "ý", "þ" >>

HexDigit == <<"0","1","2","3","4","5","6","7","8","9","A","B","C","D","E","F">>
HexVal(d) == (CHOOSE i \in 1 .. 16 : HexDigit[i] = d) - 1

\* the number a text of hexadecimal digits denotes
RECURSIVE HexNum(_)
HexNum(h) ==
    IF h = "" THEN 0
    ELSE 16 * HexNum(SubSeq(h, 1, Len(h) - 1)) + HexVal(SubSeq(h, Len(h), Len(h)))

\* the character is written by its code point name
IsBeyond(ch) == Len(ch) > 1

\* ord(ch) of a character written by its code point name
Ord(ch) == HexNum(SubSeq(ch, 3, Len(ch)))

Hex(n, k) == HexDigit[((n \div k) % 16) + 1]

\* the name of the code point n
Chr(n) ==
    IF n < 65536
    THEN "U+" \o Hex(n, 4096) \o Hex(n, 256) \o Hex(n, 16) \o Hex(n, 1)
    ELSE IF n < 1048576
    THEN "U+" \o Hex(n, 65536) \o Hex(n, 4096) \o Hex(n, 256) \o Hex(n, 16) \o Hex(n, 1)
    ELSE "U+" \o Hex(n, 1048576) \o Hex(n, 65536) \o Hex(n, 4096) \o Hex(n, 256)
              \o Hex(n, 16) \o Hex(n, 1)

\* n lies in one of the ranges <<first, last>>
InRanges(n, ranges) == \E r \in ranges : r[1] <= n /\ n <= r[2]

\* the characters written by name whose code point lies in one of the ranges
Beyond(ranges) == {ch \in STRING : IsBeyond(ch) /\ InRanges(Ord(ch), ranges)}

\* the upper-case characters beyond Latin-1 that str.lower() maps to one
\* character beyond Latin-1: <<first, last, step, offset>> maps the code
\* points first, first + step, ... up to last to themselves plus offset
LowerRanges ==
    {
      <<256, 302, 2, 1>>, <<306, 310, 2, 1>>, <<313, 327, 2, 1>>,
      <<330, 374, 2, 1>>, <<377, 381, 2, 1>>, <<385, 385, 1, 210>>,
      <<386, 388, 2, 1>>, <<390, 390, 1, 206>>, <<391, 391, 1, 1>>,
      <<393, 394, 1, 205>>, <<395, 395, 1, 1>>, <<398, 398, 1, 79>>,
      <<399, 399, 1, 202>>, <<400, 400, 1, 203>>, <<401, 401, 1, 1>>,
      <<403, 403, 1, 205>>, <<404, 404, 1, 207>>, <<406, 406, 1, 211>>,
      <<407, 407, 1, 209>>, <<408, 408, 1, 1>>, <<412, 412, 1, 211>>,
      <<413, 413, 1, 213>>, <<415, 415, 1, 214>>, <<416, 420, 2, 1>>,
      <<422, 422, 1, 218>>, <<423, 423, 1, 1>>, <<425, 425, 1, 218>>,
      <<428, 428, 1, 1>>, <<430, 430, 1, 218>>, <<431, 431, 1, 1>>,
      <<433, 434, 1, 217>>, <<435, 437, 2, 1>>, <<439, 439, 1, 219>>,
      <<440, 440, 1, 1>>, <<444, 444, 1, 1>>, <<452, 452, 1, 2>>,
      <<453, 453, 1, 1>>, <<455, 455, 1, 2>>, <<456, 456, 1, 1>>,
      <<458, 458, 1, 2>>, <<459, 475, 2, 1>>, <<478, 494, 2, 1>>,
      <<497, 497, 1, 2>>, <<498, 500, 2, 1>>, <<502, 502, 1, -97>>,
      <<503, 503, 1, -56>>, <<504, 542, 2, 1>>, <<544, 544, 1, -130>>,
      <<546, 562, 2, 1>>, <<570, 570, 1, 10795>>, <<571, 571, 1, 1>>,
      <<573, 573, 1, -163>>, <<574, 574, 1, 10792>>, <<577, 577, 1, 1>>,
      <<579, 579, 1, -195>>, <<580, 580, 1, 69>>, <<581, 581, 1, 71>>,
      <<582, 590, 2, 1>>, <<880, 882, 2, 1>>, <<886, 886, 1, 1>>,
      <<895, 895, 1, 116>>, <<902, 902, 1, 38>>, <<904, 906, 1, 37>>,
      <<908, 908, 1, 64>>, <<910, 911, 1, 63>>, <<913, 929, 1, 32>>,
      <<931, 939, 1, 32>>, <<975, 975, 1, 8>>, <<984, 1006, 2, 1>>,
      <<1012, 1012, 1, -60>>, <<1015, 1015, 1, 1>>, <<1017, 1017, 1, -7>>,
      <<1018, 1018, 1, 1>>, <<1021, 1023, 1, -130>>, <<1024, 1039, 1, 80>>,
      <<1040, 1071, 1, 32>>, <<1120, 1152, 2, 1>>, <<1162, 1214, 2, 1>>,
      <<1216, 1216, 1, 15>>, <<1217, 1229, 2, 1>>, <<1232, 1326, 2, 1>>,
      <<1329, 1366, 1, 48>>, <<4256, 4293, 1, 7264>>, <<4295, 4295, 1, 7264>>,
      <<4301, 4301, 1, 7264>>, <<5024, 5103, 1, 38864>>, <<5104, 5109, 1, 8>>,
      <<7312, 7354, 1, -3008>>, <<7357, 7359, 1, -3008>>,
      <<7680, 7828, 2, 1>>, <<7840, 7934, 2, 1>>, <<7944, 7951, 1, -8>>,
      <<7960, 7965, 1, -8>>, <<7976, 7983, 1, -8>>, <<7992, 7999, 1, -8>>,
      <<8008, 8013, 1, -8>>, <<8025, 8031, 2, -8>>, <<8040, 8047, 1, -8>>,
      <<8072, 8079, 1, -8>>, <<8088, 8095, 1, -8>>, <<8104, 8111, 1, -8>>,
      <<8120, 8121, 1, -8>>, <<8122, 8123, 1, -74>>, <<8124, 8124, 1, -9>>,
      <<8136, 8139, 1, -86>>, <<8140, 8140, 1, -9>>, <<8152, 8153, 1, -8>>,
      <<8154, 8155, 1, -100>>, <<8168, 8169, 1, -8>>, <<8170, 8171, 1, -112>>,
      <<8172, 8172, 1, -7>>, <<8184, 8185, 1, -128>>, <<8186, 8187, 1, -126>>,
      <<8188, 8188, 1, -9>>, <<8486, 8486, 1, -7517>>, <<8498, 8498, 1, 28>>,
      <<8544, 8559, 1, 16>>, <<8579, 8579, 1, 1>>, <<9398, 9423, 1, 26>>,
      <<11264, 11311, 1, 48>>, <<11360, 11360, 1, 1>>,
      <<11362, 11362, 1, -10743>>, <<11363, 11363, 1, -3814>>,
      <<11364, 11364, 1, -10727>>, <<11367, 11371, 2, 1>>,
      <<11373, 11373, 1, -10780>>, <<11374, 11374, 1, -10749>>,
      <<11375, 11375, 1, -10783>>, <<11376, 11376, 1, -10782>>,
      <<11378, 11378, 1, 1>>, <<11381, 11381, 1, 1>>,
      <<11390, 11391, 1, -10815>>, <<11392, 11490, 2, 1>>,
      <<11499, 11501, 2, 1>>, <<11506, 11506, 1, 1>>, <<42560, 42604, 2, 1>>,
      <<42624, 42650, 2, 1>>, <<42786, 42798, 2, 1>>, <<42802, 42862, 2, 1>>,
      <<42873, 42875, 2, 1>>, <<42877, 42877, 1, -35332>>,
      <<42878, 42886, 2, 1>>, <<42891, 42891, 1, 1>>,
      <<42893, 42893, 1, -42280>>, <<42896, 42898, 2, 1>>,
      <<42902, 42920, 2, 1>>, <<42922, 42922, 1, -42308>>,
      <<42923, 42923, 1, -42319>>, <<42924, 42924, 1, -42315>>,
      <<42925, 42925, 1, -42305>>, <<42926, 42926, 1, -42308>>,
      <<42928, 42928, 1, -42258>>, <<42929, 42929, 1, -42282>>,
      <<42930, 42930, 1, -42261>>, <<42931, 42931, 1, 928>>,
      <<42932, 42946, 2, 1>>, <<42948, 42948, 1, -48>>,
      <<42949, 42949, 1, -42307>>, <<42950, 42950, 1, -35384>>,
      <<42951, 42953, 2, 1>>, <<42960, 42960, 1, 1>>, <<42966, 42968, 2, 1>>,
      <<42997, 42997, 1, 1>>, <<65313, 65338, 1, 32>>,
      <<66560, 66599, 1, 40>>, <<66736, 66771, 1, 40>>,
      <<66928, 66938, 1, 39>>, <<66940, 66954, 1, 39>>,
      <<66956, 66962, 1, 39>>, <<66964, 66965, 1, 39>>,
      <<68736, 68786, 1, 64>>, <<71840, 71871, 1, 32>>,
      <<93760, 93791, 1, 32>>, <<125184, 125217, 1, 34>> }

\* the characters beyond Latin-1 that str.lower() maps into Latin-1 or to
\* two characters
LowerSpecial ==
    ("U+0130" :> <<"i", "U+0307">>) @@ ("U+0178" :> <<"ÿ">>) @@ ("U+1E9E" :> <<"ß">>)
        @@ ("U+212A" :> <<"k">>) @@ ("U+212B" :> <<"å">>)

\* the range of LowerRanges that maps the code point n, if any
LowerRangeOf(n) ==
    {r \in LowerRanges : r[1] <= n /\ n <= r[2] /\ (n - r[1]) % r[3] = 0}

\* str.lower() of one character other than U+03A3: a text, of two characters
\* for U+0130
LowerChar(ch) ==
    IF IsBeyond(ch)
    THEN IF ch \in DOMAIN LowerSpecial THEN LowerSpecial[ch]
         ELSE IF LowerRangeOf(Ord(ch)) # {}
         THEN <<Chr(Ord(ch) + (CHOOSE r \in LowerRangeOf(Ord(ch)) : TRUE)[4])>>
         ELSE <<ch>>
    ELSE IF \E i \in DOMAIN UpperAlpha : UpperAlpha[i] = ch
    THEN <<LowerAlpha[CHOOSE i \in DOMAIN UpperAlpha : UpperAlpha[i] = ch]>>
    ELSE IF \E i \in DOMAIN UpperLatin : UpperLatin[i] = ch
    THEN <<LowerLatin[CHOOSE i \in DOMAIN UpperLatin : UpperLatin[i] = ch]>>
    ELSE <<ch>>

\* the characters with the property Cased, beyond Latin-1 as ranges
CasedRanges ==
    {
      <<256, 442>>, <<444, 447>>, <<452, 659>>, <<661, 696>>, <<704, 705>>,
      <<736, 740>>, <<837, 837>>, <<880, 883>>, <<886, 887>>, <<890, 893>>,
      <<895, 895>>, <<902, 902>>, <<904, 906>>, <<908, 908>>, <<910, 929>>,
      <<931, 1013>>, <<1015, 1153>>, <<1162, 1327>>, <<1329, 1366>>,
      <<1376, 1416>>, <<4256, 4293>>, <<4295, 4295>>, <<4301, 4301>>,
      <<4304, 4346>>, <<4349, 4351>>, <<5024, 5109>>, <<5112, 5117>>,
      <<7296, 7304>>, <<7312, 7354>>, <<7357, 7359>>, <<7424, 7615>>,
      <<7680, 7957>>, <<7960, 7965>>, <<7968, 8005>>, <<8008, 8013>>,
      <<8016, 8023>>, <<8025, 8025>>, <<8027, 8027>>, <<8029, 8029>>,
      <<8031, 8061>>, <<8064, 8116>>, <<8118, 8124>>, <<8126, 8126>>,
      <<8130, 8132>>, <<8134, 8140>>, <<8144, 8147>>, <<8150, 8155>>,
      <<8160, 8172>>, <<8178, 8180>>, <<8182, 8188>>, <<8305, 8305>>,
      <<8319, 8319>>, <<8336, 8348>>, <<8450, 8450>>, <<8455, 8455>>,
      <<8458, 8467>>, <<8469, 8469>>, <<8473, 8477>>, <<8484, 8484>>,
      <<8486, 8486>>, <<8488, 8488>>, <<8490, 8493>>, <<8495, 8500>>,
      <<8505, 8505>>, <<8508, 8511>>, <<8517, 8521>>, <<8526, 8526>>,
      <<8544, 8575>>, <<8579, 8580>>, <<9398, 9449>>, <<11264, 11492>>,
      <<11499, 11502>>, <<11506, 11507>>, <<11520, 11557>>, <<11559, 11559>>,
      <<11565, 11565>>, <<42560, 42605>>, <<42624, 42653>>, <<42786, 42887>>,
      <<42891, 42894>>, <<42896, 42954>>, <<42960, 42961>>, <<42963, 42963>>,
      <<42965, 42969>>, <<42997, 42998>>, <<43000, 43002>>, <<43824, 43866>>,
      <<43868, 43880>>, <<43888, 43967>>, <<64256, 64262>>, <<64275, 64279>>,
      <<65313, 65338>>, <<65345, 65370>>, <<66560, 66639>>, <<66736, 66771>>,
      <<66776, 66811>>, <<66928, 66938>>, <<66940, 66954>>, <<66956, 66962>>,
      <<66964, 66965>>, <<66967, 66977>>, <<66979, 66993>>, <<66995, 67001>>,
      <<67003, 67004>>, <<67456, 67456>>, <<67459, 67461>>, <<67463, 67504>>,
      <<67506, 67514>>, <<68736, 68786>>, <<68800, 68850>>, <<71840, 71903>>,
      <<93760, 93823>>, <<119808, 119892>>, <<119894, 119964>>,
      <<119966, 119967>>, <<119970, 119970>>, <<119973, 119974>>,
      <<119977, 119980>>, <<119982, 119993>>, <<119995, 119995>>,
      <<119997, 120003>>, <<120005, 120069>>, <<120071, 120074>>,
      <<120077, 120084>>, <<120086, 120092>>, <<120094, 120121>>,
      <<120123, 120126>>, <<120128, 120132>>, <<120134, 120134>>,
      <<120138, 120144>>, <<120146, 120485>>, <<120488, 120512>>,
      <<120514, 120538>>, <<120540, 120570>>, <<120572, 120596>>,
      <<120598, 120628>>, <<120630, 120654>>, <<120656, 120686>>,
      <<120688, 120712>>, <<120714, 120744>>, <<120746, 120770>>,
      <<120772, 120779>>, <<122624, 122633>>, <<122635, 122654>>,
      <<125184, 125251>>, <<127280, 127305>>, <<127312, 127337>>,
      <<127344, 127369>> }
Cased ==
    Range(UpperAlpha) \cup Range(LowerAlpha) \cup Range(UpperLatin) \cup Range(LowerLatin)
        \cup {"ª", "µ", "º", "ß", "ÿ"} \cup Beyond(CasedRanges)

\* the characters with the property Case_Ignorable, the grave accent and
\* those beyond Latin-1 as ranges
CaseIgnorableRanges ==
    { <<96, 96>>,
      <<688, 879>>, <<884, 885>>, <<890, 890>>, <<900, 901>>, <<903, 903>>,
      <<1155, 1161>>, <<1369, 1369>>, <<1375, 1375>>, <<1425, 1469>>,
      <<1471, 1471>>, <<1473, 1474>>, <<1476, 1477>>, <<1479, 1479>>,
      <<1524, 1524>>, <<1536, 1541>>, <<1552, 1562>>, <<1564, 1564>>,
      <<1600, 1600>>, <<1611, 1631>>, <<1648, 1648>>, <<1750, 1757>>,
      <<1759, 1768>>, <<1770, 1773>>, <<1807, 1807>>, <<1809, 1809>>,
      <<1840, 1866>>, <<1958, 1968>>, <<2027, 2037>>, <<2042, 2042>>,
      <<2045, 2045>>, <<2070, 2093>>, <<2137, 2139>>, <<2184, 2184>>,
      <<2192, 2193>>, <<2200, 2207>>, <<2249, 2306>>, <<2362, 2362>>,
      <<2364, 2364>>, <<2369, 2376>>, <<2381, 2381>>, <<2385, 2391>>,
      <<2402, 2403>>, <<2417, 2417>>, <<2433, 2433>>, <<2492, 2492>>,
      <<2497, 2500>>, <<2509, 2509>>, <<2530, 2531>>, <<2558, 2558>>,
      <<2561, 2562>>, <<2620, 2620>>, <<2625, 2626>>, <<2631, 2632>>,
      <<2635, 2637>>, <<2641, 2641>>, <<2672, 2673>>, <<2677, 2677>>,
      <<2689, 2690>>, <<2748, 2748>>, <<2753, 2757>>, <<2759, 2760>>,
      <<2765, 2765>>, <<2786, 2787>>, <<2810, 2815>>, <<2817, 2817>>,
      <<2876, 2876>>, <<2879, 2879>>, <<2881, 2884>>, <<2893, 2893>>,
      <<2901, 2902>>, <<2914, 2915>>, <<2946, 2946>>, <<3008, 3008>>,
      <<3021, 3021>>, <<3072, 3072>>, <<3076, 3076>>, <<3132, 3132>>,
      <<3134, 3136>>, <<3142, 3144>>, <<3146, 3149>>, <<3157, 3158>>,
      <<3170, 3171>>, <<3201, 3201>>, <<3260, 3260>>, <<3263, 3263>>,
      <<3270, 3270>>, <<3276, 3277>>, <<3298, 3299>>, <<3328, 3329>>,
      <<3387, 3388>>, <<3393, 3396>>, <<3405, 3405>>, <<3426, 3427>>,
      <<3457, 3457>>, <<3530, 3530>>, <<3538, 3540>>, <<3542, 3542>>,
      <<3633, 3633>>, <<3636, 3642>>, <<3654, 3662>>, <<3761, 3761>>,
      <<3764, 3772>>, <<3782, 3782>>, <<3784, 3789>>, <<3864, 3865>>,
      <<3893, 3893>>, <<3895, 3895>>, <<3897, 3897>>, <<3953, 3966>>,
      <<3968, 3972>>, <<3974, 3975>>, <<3981, 3991>>, <<3993, 4028>>,
      <<4038, 4038>>, <<4141, 4144>>, <<4146, 4151>>, <<4153, 4154>>,
      <<4157, 4158>>, <<4184, 4185>>, <<4190, 4192>>, <<4209, 4212>>,
      <<4226, 4226>>, <<4229, 4230>>, <<4237, 4237>>, <<4253, 4253>>,
      <<4348, 4348>>, <<4957, 4959>>, <<5906, 5908>>, <<5938, 5939>>,
      <<5970, 5971>>, <<6002, 6003>>, <<6068, 6069>>, <<6071, 6077>>,
      <<6086, 6086>>, <<6089, 6099>>, <<6103, 6103>>, <<6109, 6109>>,
      <<6155, 6159>>, <<6211, 6211>>, <<6277, 6278>>, <<6313, 6313>>,
      <<6432, 6434>>, <<6439, 6440>>, <<6450, 6450>>, <<6457, 6459>>,
      <<6679, 6680>>, <<6683, 6683>>, <<6742, 6742>>, <<6744, 6750>>,
      <<6752, 6752>>, <<6754, 6754>>, <<6757, 6764>>, <<6771, 6780>>,
      <<6783, 6783>>, <<6823, 6823>>, <<6832, 6862>>, <<6912, 6915>>,
      <<6964, 6964>>, <<6966, 6970>>, <<6972, 6972>>, <<6978, 6978>>,
      <<7019, 7027>>, <<7040, 7041>>, <<7074, 7077>>, <<7080, 7081>>,
      <<7083, 7085>>, <<7142, 7142>>, <<7144, 7145>>, <<7149, 7149>>,
      <<7151, 7153>>, <<7212, 7219>>, <<7222, 7223>>, <<7288, 7293>>,
      <<7376, 7378>>, <<7380, 7392>>, <<7394, 7400>>, <<7405, 7405>>,
      <<7412, 7412>>, <<7416, 7417>>, <<7468, 7530>>, <<7544, 7544>>,
      <<7579, 7679>>, <<8125, 8125>>, <<8127, 8129>>, <<8141, 8143>>,
      <<8157, 8159>>, <<8173, 8175>>, <<8189, 8190>>, <<8203, 8207>>,
      <<8216, 8217>>, <<8228, 8228>>, <<8231, 8231>>, <<8234, 8238>>,
      <<8288, 8292>>, <<8294, 8303>>, <<8305, 8305>>, <<8319, 8319>>,
      <<8336, 8348>>, <<8400, 8432>>, <<11388, 11389>>, <<11503, 11505>>,
      <<11631, 11631>>, <<11647, 11647>>, <<11744, 11775>>, <<11823, 11823>>,
      <<12293, 12293>>, <<12330, 12333>>, <<12337, 12341>>, <<12347, 12347>>,
      <<12441, 12446>>, <<12540, 12542>>, <<40981, 40981>>, <<42232, 42237>>,
      <<42508, 42508>>, <<42607, 42610>>, <<42612, 42621>>, <<42623, 42623>>,
      <<42652, 42655>>, <<42736, 42737>>, <<42752, 42785>>, <<42864, 42864>>,
      <<42888, 42890>>, <<42994, 42996>>, <<43000, 43001>>, <<43010, 43010>>,
      <<43014, 43014>>, <<43019, 43019>>, <<43045, 43046>>, <<43052, 43052>>,
      <<43204, 43205>>, <<43232, 43249>>, <<43263, 43263>>, <<43302, 43309>>,
      <<43335, 43345>>, <<43392, 43394>>, <<43443, 43443>>, <<43446, 43449>>,
      <<43452, 43453>>, <<43471, 43471>>, <<43493, 43494>>, <<43561, 43566>>,
      <<43569, 43570>>, <<43573, 43574>>, <<43587, 43587>>, <<43596, 43596>>,
      <<43632, 43632>>, <<43644, 43644>>, <<43696, 43696>>, <<43698, 43700>>,
      <<43703, 43704>>, <<43710, 43711>>, <<43713, 43713>>, <<43741, 43741>>,
      <<43756, 43757>>, <<43763, 43764>>, <<43766, 43766>>, <<43867, 43871>>,
      <<43881, 43883>>, <<44005, 44005>>, <<44008, 44008>>, <<44013, 44013>>,
      <<64286, 64286>>, <<64434, 64450>>, <<65024, 65039>>, <<65043, 65043>>,
      <<65056, 65071>>, <<65106, 65106>>, <<65109, 65109>>, <<65279, 65279>>,
      <<65287, 65287>>, <<65294, 65294>>, <<65306, 65306>>, <<65342, 65342>>,
      <<65344, 65344>>, <<65392, 65392>>, <<65438, 65439>>, <<65507, 65507>>,
      <<65529, 65531>>, <<66045, 66045>>, <<66272, 66272>>, <<66422, 66426>>,
      <<67456, 67461>>, <<67463, 67504>>, <<67506, 67514>>, <<68097, 68099>>,
      <<68101, 68102>>, <<68108, 68111>>, <<68152, 68154>>, <<68159, 68159>>,
      <<68325, 68326>>, <<68900, 68903>>, <<69291, 69292>>, <<69446, 69456>>,
      <<69506, 69509>>, <<69633, 69633>>, <<69688, 69702>>, <<69744, 69744>>,
      <<69747, 69748>>, <<69759, 69761>>, <<69811, 69814>>, <<69817, 69818>>,
      <<69821, 69821>>, <<69826, 69826>>, <<69837, 69837>>, <<69888, 69890>>,
      <<69927, 69931>>, <<69933, 69940>>, <<70003, 70003>>, <<70016, 70017>>,
      <<70070, 70078>>, <<70089, 70092>>, <<70095, 70095>>, <<70191, 70193>>,
      <<70196, 70196>>, <<70198, 70199>>, <<70206, 70206>>, <<70367, 70367>>,
      <<70371, 70378>>, <<70400, 70401>>, <<70459, 70460>>, <<70464, 70464>>,
      <<70502, 70508>>, <<70512, 70516>>, <<70712, 70719>>, <<70722, 70724>>,
      <<70726, 70726>>, <<70750, 70750>>, <<70835, 70840>>, <<70842, 70842>>,
      <<70847, 70848>>, <<70850, 70851>>, <<71090, 71093>>, <<71100, 71101>>,
      <<71103, 71104>>, <<71132, 71133>>, <<71219, 71226>>, <<71229, 71229>>,
      <<71231, 71232>>, <<71339, 71339>>, <<71341, 71341>>, <<71344, 71349>>,
      <<71351, 71351>>, <<71453, 71455>>, <<71458, 71461>>, <<71463, 71467>>,
      <<71727, 71735>>, <<71737, 71738>>, <<71995, 71996>>, <<71998, 71998>>,
      <<72003, 72003>>, <<72148, 72151>>, <<72154, 72155>>, <<72160, 72160>>,
      <<72193, 72202>>, <<72243, 72248>>, <<72251, 72254>>, <<72263, 72263>>,
      <<72273, 72278>>, <<72281, 72283>>, <<72330, 72342>>, <<72344, 72345>>,
      <<72752, 72758>>, <<72760, 72765>>, <<72767, 72767>>, <<72850, 72871>>,
      <<72874, 72880>>, <<72882, 72883>>, <<72885, 72886>>, <<73009, 73014>>,
      <<73018, 73018>>, <<73020, 73021>>, <<73023, 73029>>, <<73031, 73031>>,
      <<73104, 73105>>, <<73109, 73109>>, <<73111, 73111>>, <<73459, 73460>>,
      <<78896, 78904>>, <<92912, 92916>>, <<92976, 92982>>, <<92992, 92995>>,
      <<94031, 94031>>, <<94095, 94111>>, <<94176, 94177>>, <<94179, 94180>>,
      <<110576, 110579>>, <<110581, 110587>>, <<110589, 110590>>,
      <<113821, 113822>>, <<113824, 113827>>, <<118528, 118573>>,
      <<118576, 118598>>, <<119143, 119145>>, <<119155, 119170>>,
      <<119173, 119179>>, <<119210, 119213>>, <<119362, 119364>>,
      <<121344, 121398>>, <<121403, 121452>>, <<121461, 121461>>,
      <<121476, 121476>>, <<121499, 121503>>, <<121505, 121519>>,
      <<122880, 122886>>, <<122888, 122904>>, <<122907, 122913>>,
      <<122915, 122916>>, <<122918, 122922>>, <<123184, 123197>>,
      <<123566, 123566>>, <<123628, 123631>>, <<125136, 125142>>,
      <<125252, 125259>>, <<127995, 127999>>, <<917505, 917505>>,
      <<917536, 917631>>, <<917760, 917999>> }
CaseIgnorable ==
    {"'", ".", ":", "^", "¨", "­", "¯", "´", "·", "¸"} \cup Beyond(CaseIgnorableRanges)

CAPITAL_SIGMA == "U+03A3"

\* the capital sigma at position i of s is in the Final_Sigma context: the
\* nearest character before it that is not Case_Ignorable is Cased, and the
\* nearest one after it, if any, is not
FinalSigma(s, i) ==
    LET before == {j \in 1 .. (i - 1) : s[j] \notin CaseIgnorable}
        after == {j \in (i + 1) .. Len(s) : s[j] \notin CaseIgnorable}
    IN  /\ before # {}
        /\ s[CHOOSE j \in before : \A k \in before : k <= j] \in Cased
        /\ after # {} => s[CHOOSE j \in after : \A k \in after : j <= k] \notin Cased

\* the lower case of the characters lo .. hi of s
RECURSIVE LowerRange(_, _, _)
LowerRange(s, lo, hi) ==
    IF lo > hi THEN <<>>
    ELSE IF lo = hi
    THEN (IF s[lo] = CAPITAL_SIGMA
          THEN <<IF FinalSigma(s, lo) THEN "U+03C2" ELSE "U+03C3">>
          ELSE LowerChar(s[lo]))
    ELSE LowerRange(s, lo, (lo + hi) \div 2) \o LowerRange(s, ((lo + hi) \div 2) + 1, hi)

\* str.lower()
Lower(s) == LowerRange(s, 1, Len(s))

RECURSIVE LStrip(_)
LStrip(s) ==
    IF s = <<>> THEN s
    ELSE IF Head(s) \in Whitespace THEN LStrip(Tail(s)) ELSE s

RECURSIVE RStrip(_)
RStrip(s) ==
    IF s = <<>> THEN s
    ELSE IF s[Len(s)] \in Whitespace THEN RStrip(SubSeq(s, 1, Len(s) - 1)) ELSE s

\* str.strip()
Strip(s) == RStrip(LStrip(s))

\* s.startswith(p)
StartsWith(s, p) == Len(s) >= Len(p) /\ SubSeq(s, 1, Len(p)) = p

\* "ch in s"
Contains(s, ch) == \E i \in DOMAIN s : s[i] = ch

\* the leading run of non-whitespace characters of s
RECURSIVE TakeWord(_)
TakeWord(s) ==
    IF s = <<>> \/ Head(s) \in Whitespace THEN <<>>
    ELSE <<Head(s)>> \o TakeWord(Tail(s))

\* str.split(): the maximal runs of non-whitespace characters, in order
RECURSIVE Split(_)
Split(s) ==
    LET t == LStrip(s) IN
    IF t = <<>> THEN <<>>
    ELSE LET w == TakeWord(t) IN <<w>> \o Split(SubSeq(t, Len(w) + 1, Len(t)))

normalize_verb(cmd) ==
    Lower(IF Strip(cmd) # <<>> THEN Split(Strip(cmd))[1] ELSE <<>>)

\* a pair whose reason is empty when the command is allowed
Verdict_ReasonOnlyIfRejected(ok, text, verb) ==
    [ok |-> ok, text |-> IF ok THEN "" ELSE text, verb |-> verb]

Verdict(ok, text, verb) == [ok |-> ok, text |-> text, verb |-> verb]

\* is_allowed(cmd) -> (ok, reason); the reason is text followed by verb
is_allowed(cmd) ==
    LET c == Strip(cmd)
        verb == normalize_verb(c)
        args == Tail(Split(c))
    IN  IF c = <<>> THEN Verdict(FALSE, "Empty command", <<>>)
        ELSE IF Contains(c, "\n") \/ Contains(c, "\r")
        THEN Verdict(FALSE, "Multiline commands not allowed", <<>>)
        ELSE IF Contains(c, ";") THEN Verdict(FALSE, "Semicolons not allowed", <<>>)
        ELSE IF verb \in BLOCKED_VERBS THEN Verdict(FALSE, "Blocked verb: ", verb)
        ELSE IF verb \in SAFE_SETTERS_REQUIRE_PARAMS
        THEN IF args = <<>>
             THEN Verdict(FALSE, "Missing parameters for setter: ", verb)
             ELSE Verdict(TRUE, "Allowed setter-with-params", <<>>)
        ELSE IF verb \in SAFE_GETTERS THEN Verdict(TRUE, "Allowed getter", <<>>)
        ELSE Verdict(FALSE, "Unknown/unaudited command: ", verb)

(***************************************************************************)
(* Inputs of the policy: concatenations of at most MaxFrags fragments      *)
(* (verbs of each set, an unknown verb, an argument, separators, of which  *)
(* the vertical tab is whitespace to strip() and split() and no line end   *)
(* to is_allowed, a capital letter beyond ASCII, and capital letters      *)
(* beyond Latin-1: the Kelvin sign, whose lower case is "k", the dotted    *)
(* capital I, whose lower case has two characters, and the capital sigma). *)
(***************************************************************************)
Fragments ==
    { <<"s","t","a","t","u","s">>, <<"S","T","A","T","U","S">>,
      <<"r","e","b","o","o","t">>, <<"f","a","n">>, <<"F","a","n">>,
      <<"m","a","x","p","o","w","e","r">>, <<"x","y","z">>, <<"1">>,
      <<"p","o","w","e","r">>, <<"w","a","v","e">>, <<"h","e","a","d","f","r","e">>,
      <<"h","e","a","d","w","i","d","e">>,
      <<"f","e","e","d","e","r","o","u","t","s","p","e","e","d">>,
      <<" ">>, <<"\t">>, <<"\n">>, <<"\r">>, <<";">>, <<"">>, <<"Ü">>,
      <<"l","o","c","U+212A">>, <<"U+0130">>, <<"U+03A3">> }

RECURSIVE Concats(_)
Concats(n) ==
    IF n = 0 THEN {<<>>}
    ELSE LET shorter == Concats(n - 1) IN
         shorter \cup {s \o f : s \in shorter, f \in Fragments}

Commands == Concats(MaxFrags)

NoVerdict == Verdict(FALSE, "", <<>>)

VARIABLES
    pp_pc,        \* process parse: "start" before parse_process_block ran, "done" after
    pp_text,      \* process parse: the text given to parse_process_block
    pp_out,       \* process parse: the dict parse_process_block returned
    ps_pc,        \* status parse: "start" before parse_status_block ran, "done" after
    ps_text,      \* status parse: the text given to parse_status_block
    ps_out,       \* status parse: what parse_status_block did: [raised, out]
    ga_pc,        \* GetAll parse: "start" before parse_getall_block ran, "done" after
    ga_text,      \* GetAll parse: the text given to parse_getall_block
    ga_out,       \* GetAll parse: the dict parse_getall_block returned
    p_pc,         \* policy check: "start" before is_allowed ran, "done" after
    p_cmd,        \* policy check: the command given to is_allowed
    p_res,        \* policy check: the pair is_allowed returned
    rx_buf,       \* MshSession._rx_buf, a sequence of received lines
    msh_lock,     \* MshSession._lock: the task holding it, or NoTask
    msh_waiters,  \* tasks suspended in MshSession._lock.acquire(), oldest first
    bootstrapped, \* MshSession._bootstrapped
    epc,          \* per task: where its exec call stands
    ecmd,         \* per task: the cmd argument of its exec call
    eid,          \* per task: the number of its exec call (0: none yet)
    ecw,          \* per task: index in wlog of the command line it wrote (0: none)
    eret,         \* per task: the text its exec returned
    nexec,        \* exec calls made so far
    wlog,         \* every write to the device, in order: [e: exec, line: text]
    iolog,        \* exec numbers in the order of their reads and writes,
                  \* consecutive repetitions left out
    pipe,         \* lines the device sends for what was written, not yet read
    dev_prompt,   \* the text the device writes as its prompt
    max_execs,    \* the number of exec calls the behaviour is followed for
    audit_inited, \* audit.py: the module-level _audit is not None
    a_max_queue,  \* AuditConfig.max_queue
    a_flush_every,\* AuditConfig.flush_every
    a_q,          \* AuditLogger._q, oldest first
    a_task,       \* AuditLogger._task is not None
    a_writer,     \* the writer task: "none", "run" (in its loop) or "exited"
    a_dropped,    \* AuditLogger._dropped
    a_flush_count,\* flush_count of _run_writer
    a_file,       \* the lines written to the audit file, in order
    a_synced,     \* how many of them the last fsync covered
    a_stop,       \* stop(): "idle", "put" (suspended in put), "join", "returned"
    a_log,        \* the events given to log(), in the order of the calls
    a_enq,        \* the events log() enqueued, in order
    a_at_stop,    \* Len(a_enq) and Len(a_q) when stop() was last called
    a_drained,    \* lines written by the drain loop of the writer
    serving,      \* main.py: the server accepts clients (not yet shutting down)
    cancelling,   \* main.py: the polling tasks whose cancel() was called and
                  \* that have not had their turn since
    hub_clients,  \* TelemetryHub._clients
    hub_lock,     \* TelemetryHub._lock: the task holding it, or NoTask
    hpc,          \* per client: where its ws_handler stands
    hframe,       \* per client: the frame the handler is working on
    hreply,       \* per client: the message it is sending
    hsent,        \* per client: the messages sent to it, in order
    hnframes,     \* per client: frames received so far
    h_frames,     \* the exec frames received by the handlers, in order
    h_sess,       \* the exec calls the handlers made for exec frames, in order
    h_recv,       \* per client: the frames its handler received, in order
    last_fingerprint, \* TelemetryHub._last_fingerprint (<<>>: None)
    c_call,       \* the last call of changed(): <<[p, before, ret]>>, or <<>>
    c_prev,       \* the argument of the call of changed() before it: <<p>>, or <<>>
    hub_waiters,  \* tasks suspended in TelemetryHub._lock.acquire(), oldest first
    s_pc,         \* per sink: "out", "add_wait" (in add()), "in", "remove_wait"
                  \* (in remove()), "removed"
    s_recv,       \* per sink: the broadcasts sent to it: [id, pc, from]
    s_from,       \* per sink: broadcasts begun and called when its add() returned
    s_mark,       \* per sink: the broadcast in progress when it last called
                  \* add() or remove() (0: none)
    b_pc,         \* per polling task, its broadcast(): "idle", "wait" (for the
                  \* lock) or "send"
    b_id,         \* broadcasts that took the lock so far
    b_name,       \* per polling task: the name of the event it broadcasts
    b_S,          \* the subscriber set when the broadcast took the lock
    b_visited,    \* sinks the for loop of the broadcast has come to
    b_dead,       \* dead of the broadcast
    b_last,       \* the last broadcast that returned: <<[id, S, ok, dead, after]>>
    l_pc,         \* per polling task: "top", "exec", "hb", "status", "err",
                  \* "sleep", "cancelled"
    l_parsed,     \* poll_status_loop: parsed of the iteration
    l_log         \* poll_status_loop, per iteration: [ok, chg, events, fp0]

policyVars == <<p_pc, p_cmd, p_res>>
getallVars == <<ga_pc, ga_text, ga_out>>
statusVars == <<ps_pc, ps_text, ps_out>>
processVars == <<pp_pc, pp_text, pp_out>>
parseVars == <<getallVars, statusVars, processVars>>
\* the device writes the same prompt all along: no step changes it
devVars == <<dev_prompt, max_execs>>
pureVars == <<policyVars, parseVars, devVars>>
mshVars == <<rx_buf, msh_lock, msh_waiters, bootstrapped, epc, ecmd, eid, ecw,
             eret, nexec, wlog, iolog, pipe, devVars>>
auditVars == <<audit_inited, a_max_queue, a_flush_every, a_q, a_task, a_writer,
               a_dropped, a_flush_count, a_file, a_synced, a_stop, a_log, a_enq,
               a_at_stop, a_drained>>
mainVars == <<serving, cancelling>>
wsVars == <<mainVars, hub_clients, hub_lock, hpc, hframe, hreply, hsent, hnframes,
           h_frames, h_sess, h_recv>>
handlerVars == <<mainVars, hpc, hframe, hreply, hsent, hnframes, h_frames, h_sess, h_recv>>
changedVars == <<last_fingerprint, c_call, c_prev>>
fanoutVars == <<hub_waiters, s_pc, s_recv, s_from, s_mark, b_pc, b_id, b_name, b_S,
                b_visited, b_dead, b_last>>
loopVars == <<l_pc, l_parsed, l_log>>
hubVars == <<changedVars, fanoutVars, loopVars>>
nonPolicyVars == <<parseVars, mshVars, auditVars, wsVars, hubVars>>
nonMshVars == <<pureVars, auditVars, wsVars, hubVars>>
nonAuditVars == <<pureVars, mshVars, wsVars, hubVars>>
vars == <<pureVars, mshVars, auditVars, wsVars, hubVars>>

(***************************************************************************)
(* policy.py as a checked function: is_allowed applied to one command.     *)
(***************************************************************************)
PolicyIdle == p_pc = "done" /\ p_cmd = <<>> /\ p_res = NoVerdict

PolicyInit == p_pc = "start" /\ p_cmd \in Commands /\ p_res = NoVerdict

PolicyCall ==
    /\ p_pc = "start"
    /\ p_res' = is_allowed(p_cmd)
    /\ p_pc' = "done"
    /\ UNCHANGED <<p_cmd, nonPolicyVars>>

(***************************************************************************)
(* parse_getall.py: parse_getall_block applied to one text.                *)
(*                                                                         *)
(* A text is a sequence of characters. The dict returned is a function     *)
(* from keys to entries; an entry is a function whose domain is "raw",     *)
(* with "value" and with "unit" when the code sets them. A value is a      *)
(* Python number, an int or a float.                                       *)
(***************************************************************************)
\* [0-9]
AsciiDigits == {"0", "1", "2", "3", "4", "5", "6", "7", "8", "9"}

\* the code points of the digits zero beyond Latin-1: each is followed by
\* the digits one to nine of its script
DecimalZeros ==
    {
      1632, 1776, 1984, 2406, 2534, 2662, 2790, 2918, 3046, 3174, 3302, 3430,
      3558, 3664, 3792, 3872, 4160, 4240, 6112, 6160, 6470, 6608, 6784, 6800,
      6992, 7088, 7232, 7248, 42528, 43216, 43264, 43472, 43504, 43600, 44016,
      65296, 66720, 68912, 69734, 69872, 69942, 70096, 70384, 70736, 70864,
      71248, 71360, 71472, 71904, 72016, 72784, 73040, 73120, 92768, 92864,
      93008, 120782, 120792, 120802, 120812, 120822, 123200, 123632, 125264,
      130032 }

\* \d: the decimal digits, which are also the digits int() and float() take
Digits == AsciiDigits \cup {Chr(z + d) : z \in DecimalZeros, d \in 0 .. 9}

\* [A-Za-z%/]
UnitChars == Range(UpperAlpha) \cup Range(LowerAlpha) \cup {"%", "/"}

\* the characters at which str.splitlines() breaks, once "\r" is removed
LineBreaks ==
    { "\n", "", "\f", "", "", "", "", "U+2028", "U+2029" }

\* text.replace("\r", "")
RemoveCR(text) == SelectSeq(text, LAMBDA ch : ch # "\r")

\* str.splitlines()
RECURSIVE splitlines(_)
splitlines(t) ==
    IF t = <<>> THEN <<>>
    ELSE LET ends == {i \in DOMAIN t : t[i] \in LineBreaks}
             k == IF ends = {} THEN Len(t) + 1
                  ELSE CHOOSE i \in ends : \A j \in ends : i <= j
         IN  <<SubSeq(t, 1, k - 1)>> \o splitlines(SubSeq(t, k + 1, Len(t)))

\* index of the first ch in s (s contains ch)
IndexOf(s, ch) == CHOOSE i \in DOMAIN s : s[i] = ch /\ \A j \in 1 .. (i - 1) : s[j] # ch

\* how many characters of s from position i on lie in S, without a gap
Run(s, i, S) ==
    LET stops == {j \in i .. Len(s) : s[j] \notin S}
    IN  IF stops = {} THEN Len(s) + 1 - i
        ELSE (CHOOSE j \in stops : \A k \in stops : j <= k) - i

\* _NUM_UNIT_RE.match(raw): ok, group(1) as num, group(2) as unit
\* (the empty text when the group did not take part)
NUM_UNIT_RE(raw) ==
    LET a == IF raw # <<>> /\ raw[1] \in {"-", "+"} THEN 2 ELSE 1
        nd == Run(raw, a, Digits)
        b == a + nd
        nf == IF b <= Len(raw) /\ raw[b] = "." THEN Run(raw, b + 1, Digits) ELSE 0
        c == IF nf > 0 THEN b + 1 + nf ELSE b
        d == c + Run(raw, c, Whitespace)
        e == d + Run(raw, d, UnitChars)
        f == e + Run(raw, e, Whitespace)
    IN  IF nd > 0 /\ f = Len(raw) + 1
        THEN [ok |-> TRUE, num |-> SubSeq(raw, 1, c - 1), unit |-> SubSeq(raw, d, e - 1)]
        ELSE [ok |-> FALSE, num |-> <<>>, unit |-> <<>>]

\* the value of a decimal digit
DigitVal(ch) ==
    IF IsBeyond(ch)
    THEN Ord(ch) - (CHOOSE z \in DecimalZeros : z <= Ord(ch) /\ Ord(ch) <= z + 9)
    ELSE CASE ch = "0" -> 0 [] ch = "1" -> 1 [] ch = "2" -> 2 [] ch = "3" -> 3
           [] ch = "4" -> 4 [] ch = "5" -> 5 [] ch = "6" -> 6 [] ch = "7" -> 7
           [] ch = "8" -> 8 [] ch = "9" -> 9

(***************************************************************************)
(* Python numbers. An int is [type |-> "int", neg, mag]: its sign and the  *)
(* decimal digits of its magnitude, most significant first, <<0>> for      *)
(* zero. A float is an IEEE-754 double, [type |-> "float", cls, neg, bits, *)
(* exp]: cls is "finite", "inf" or "nan", and a finite float is the binary *)
(* number bits (most significant digit first, the last digit a 1, no digit *)
(* for zero) times 2^exp, negated when neg.                                *)
(***************************************************************************)
\* sys.int_info.default_max_str_digits: int() raises ValueError on a text
\* of more digits
MaxStrDigits == 4300

\* no halfway point between two doubles has more than 768 significant
\* digits: the digits of a number after these decide its rounding only by
\* being all zero or not
StickyDigits == 800

Smallest(S) == CHOOSE i \in S : \A j \in S : i <= j
Largest(S) == -Smallest({-i : i \in S})

\* the sequence f written out element by element
Tuple(f) == f \o <<>>

Zeros(n) == Tuple([i \in 1 .. n |-> 0])

\* digits (most significant first) without the zeros in front
StripZeros(ds) ==
    With({i \in DOMAIN ds : ds[i] # 0},
         LAMBDA nz : IF nz = {} THEN <<>> ELSE SubSeq(ds, Smallest(nz), Len(ds)))

\* the digits of s
DigitsOf(s) == SelectSeq(s, LAMBDA ch : ch \in Digits)

\* the values of a text of digits
DigitVals(s) == Tuple([i \in 1 .. Len(s) |-> DigitVal(s[i])])

\* a number text of one digit more than int() takes
LongNumber == Tuple([i \in 1 .. MaxStrDigits + 1 |-> "1"])

(***************************************************************************)
(* A natural number of any size is the sequence of its limbs, the digits   *)
(* of its writing in base 10^9, least significant first and without zero   *)
(* limbs at the end; <<>> is zero.                                         *)
(***************************************************************************)
LimbDigits == 3 * 3
Limb == 1000 * 1000 * 1000
Pow10s == <<1, 10, 100, 1000, 10000, 100000, 1000000, 10000000, 100000000>>

LimbAt(a, i) == IF i <= Len(a) THEN a[i] ELSE 0

BigTrim(a) ==
    With({i \in DOMAIN a : a[i] # 0},
         LAMBDA nz : IF nz = {} THEN <<>> ELSE SubSeq(a, 1, Largest(nz)))

\* a >= b
BigGeq(a, b) ==
    IF Len(a) # Len(b) THEN Len(a) > Len(b)
    ELSE With({-i : i \in {j \in DOMAIN a : a[j] # b[j]}},
              LAMBDA diff : diff = {} \/ a[-Smallest(diff)] > b[-Smallest(diff)])

\* 2 a
BigDouble(a) ==
    LET n == IF a # <<>> /\ 2 * a[Len(a)] >= Limb THEN Len(a) + 1 ELSE Len(a)
    IN  Tuple([i \in 1 .. n |-> ((2 * LimbAt(a, i)) % Limb)
                                   + (IF i > 1 /\ 2 * a[i - 1] >= Limb THEN 1 ELSE 0)])

\* a 2^k
RECURSIVE BigShl(_, _)
BigShl(a, k) ==
    IF k = 0 THEN a
    ELSE IF k = 1 THEN BigDouble(a)
    ELSE With(BigShl(a, k \div 2), LAMBDA h : BigShl(h, k - (k \div 2)))

\* the limbs lo .. hi of a - b and the borrow out of them, given the borrow
\* into limb lo
RECURSIVE BigSubLimbs(_, _, _, _, _)
BigSubLimbs(a, b, lo, hi, borrow) ==
    IF lo = hi
    THEN With(a[lo] - LimbAt(b, lo) - borrow,
              LAMBDA d : [limbs |-> <<IF d < 0 THEN d + Limb ELSE d>>,
                          borrow |-> IF d < 0 THEN 1 ELSE 0])
    ELSE With(BigSubLimbs(a, b, lo, (lo + hi) \div 2, borrow),
              LAMBDA low : With(BigSubLimbs(a, b, ((lo + hi) \div 2) + 1, hi, low.borrow),
                                LAMBDA high : [limbs |-> low.limbs \o high.limbs,
                                               borrow |-> high.borrow]))

\* a - b, for a >= b
BigSub(a, b) ==
    IF a = <<>> THEN a
    ELSE With(BigSubLimbs(a, b, 1, Len(a), 0), LAMBDA d : BigTrim(d.limbs))

\* 10^k
BigPow10(k) ==
    Tuple([i \in 1 .. (k \div LimbDigits) + 1 |->
              IF i = (k \div LimbDigits) + 1 THEN Pow10s[(k % LimbDigits) + 1] ELSE 0])

\* the number written with the decimal digits ds, most significant first
BigOfDigits(ds) ==
    LET D(k) == IF k >= 1 THEN ds[k] ELSE 0
    IN  With(Tuple([i \in 1 .. (Len(ds) + LimbDigits - 1) \div LimbDigits |->
                 LET e == Len(ds) - LimbDigits * (i - 1)
                 IN  D(e) + 10 * D(e - 1) + 100 * D(e - 2) + 1000 * D(e - 3)
                         + 10000 * D(e - 4) + 100000 * D(e - 5) + 1000000 * D(e - 6)
                         + 10000000 * D(e - 7) + 100000000 * D(e - 8)]),
             LAMBDA a : BigTrim(a))

\* the decimal digits of a, most significant first
DigitsOfBig(a) ==
    IF a = <<>> THEN <<0>>
    ELSE With(Tuple([k \in 1 .. LimbDigits * Len(a) |->
                  LET j == LimbDigits * Len(a) - k
                  IN  (a[(j \div LimbDigits) + 1] \div Pow10s[(j % LimbDigits) + 1]) % 10]),
              LAMBDA ds : StripZeros(ds))

\* the number written with the binary digits lo .. hi of bits, less than
\* thirty of them
RECURSIVE BitsNat(_, _, _)
BitsNat(bits, lo, hi) == IF hi < lo THEN 0 ELSE 2 * BitsNat(bits, lo, hi - 1) + bits[hi]

\* the number written with the binary digits bits, most significant first
\* and at most 53 of them: the last 29 digits (less than one limb) added
\* to the digits before them times 2^29
BigOfBits(bits) ==
    LET cut == IF Len(bits) > 29 THEN Len(bits) - 29 ELSE 0
        high == BitsNat(bits, 1, cut)
        low == BitsNat(bits, cut + 1, Len(bits))
    IN  With(BigShl(IF high = 0 THEN <<>> ELSE <<high>>, Len(bits) - cut),
             LAMBDA h : BigTrim(<<(LimbAt(h, 1) + low) % Limb,
                                  LimbAt(h, 2) + ((LimbAt(h, 1) + low) \div Limb)>>))

PyInt(neg, mag) == [type |-> "int", neg |-> neg, mag |-> mag]

PyFloat(cls, neg, bits, exp) ==
    [type |-> "float", cls |-> cls, neg |-> neg, bits |-> bits, exp |-> exp]

FloatZero(neg) == PyFloat("finite", neg, <<>>, 0)
Inf(neg) == PyFloat("inf", neg, <<>>, 0)
NaN == PyFloat("nan", FALSE, <<>>, 0)

\* the float of the binary digits bits, the last of them worth 2^exp:
\* infinite from 2^1024 on
FloatOfBits(neg, bits, exp) ==
    With({i \in DOMAIN bits : bits[i] = 1},
         LAMBDA ones :
             IF ones = {} THEN FloatZero(neg)
             ELSE IF exp + Len(bits) - Smallest(ones) > 1023 THEN Inf(neg)
             ELSE PyFloat("finite", neg, SubSeq(bits, Smallest(ones), Largest(ones)),
                        exp + Len(bits) - Largest(ones)))

\* the binary number bits plus one: one digit longer when all digits are 1
BitsInc(bits) ==
    With({i \in DOMAIN bits : bits[i] = 0},
         LAMBDA zs : IF zs = {} THEN <<1>> \o Zeros(Len(bits))
                     ELSE Tuple([i \in 1 .. Len(bits) |->
                                    IF i < Largest(zs) THEN bits[i]
                                    ELSE IF i = Largest(zs) THEN 1 ELSE 0]))

\* num, den and e changed, num / den * 2^e staying the same, until
\* den <= num < 2 den
RECURSIVE Normalised(_, _, _)
Normalised(num, den, e) ==
    IF ~BigGeq(num, den) THEN With(BigDouble(num), LAMBDA n : Normalised(n, den, e - 1))
    ELSE With(BigDouble(den),
              LAMBDA d : IF BigGeq(num, d) THEN Normalised(num, d, e + 1)
                         ELSE [num |-> num, den |-> den, e |-> e])

\* the first k binary digits of r / den, for r < 2 den, and twice what is
\* left of r after them (r itself for k = 0)
RECURSIVE QuotientBits(_, _, _)
QuotientBits(r, den, k) ==
    IF k = 0 THEN [bits |-> <<>>, rest |-> r]
    ELSE IF r = <<>> THEN [bits |-> Zeros(k), rest |-> r]
    ELSE IF k = 1
    THEN With(BigGeq(r, den),
              LAMBDA one : [bits |-> <<IF one THEN 1 ELSE 0>>,
                            rest |-> BigDouble(IF one THEN BigSub(r, den) ELSE r)])
    ELSE With(QuotientBits(r, den, k \div 2),
              LAMBDA first :
                  With(QuotientBits(first.rest, den, k - (k \div 2)),
                       LAMBDA next : [bits |-> first.bits \o next.bits,
                                      rest |-> next.rest]))

\* what is left after the digits qb.bits is more than half of what the
\* last digit is worth, or half of it and the last digit is 1
RoundsUp(qb, den) ==
    IF qb.rest = den THEN qb.bits # <<>> /\ qb.bits[Len(qb.bits)] = 1
    ELSE BigGeq(qb.rest, den)

\* the double nearest to sig * 10^q, for digits sig that start with no
\* zero and 10^-324 <= sig * 10^q < 10^309: a double has 53 binary digits,
\* fewer below 2^-1022 where the last digit is worth 2^-1074; of two doubles
\* equally near, the one whose last digit is 0
NearestDouble(neg, sig, q) ==
    LET e0 == (((Len(sig) + q - 1) * 33219) \div 10000) - 1
        num == BigOfDigits(IF q > 0 THEN sig \o Zeros(q) ELSE sig)
        den == IF q < 0 THEN BigPow10(-q) ELSE <<1>>
    IN  With(With(IF e0 < 0 THEN BigShl(num, -e0) ELSE num,
                  LAMBDA n0 : With(IF e0 > 0 THEN BigShl(den, e0) ELSE den,
                                   LAMBDA d0 : Normalised(n0, d0, e0))),
             LAMBDA n :
                 With(IF n.e >= -1022 THEN 53 ELSE n.e + 1075,
                      LAMBDA k :
                          IF k < 0 THEN FloatZero(neg)
                          ELSE With(QuotientBits(n.num, n.den, k),
                                    LAMBDA qb :
                                        FloatOfBits(neg,
                                                    IF RoundsUp(qb, n.den)
                                                    THEN BitsInc(qb.bits) ELSE qb.bits,
                                                    n.e - k + 1))))

\* the double nearest to ds * 10^p, for decimal digits ds
RoundDouble(neg, ds, p) ==
    With(StripZeros(ds),
         LAMBDA all :
             LET sig == IF Len(all) <= StickyDigits THEN all
                        ELSE SubSeq(all, 1, StickyDigits)
                                 \o <<IF \E i \in StickyDigits + 1 .. Len(all) : all[i] # 0
                                      THEN 1 ELSE 0>>
                 q == p + Len(all) - Len(sig)
             IN  IF all = <<>> \/ Len(all) + p < -323 THEN FloatZero(neg)
                 ELSE IF Len(all) + p > 309 THEN Inf(neg)
                 ELSE NearestDouble(neg, sig, q))

\* the text without its sign
Unsigned(v) == IF v # <<>> /\ v[1] \in {"-", "+"} THEN Tail(v) ELSE v

\* where the exponent mark of a number text is, past its end when it has none
ExpMark(body) ==
    LET marks == {i \in DOMAIN body : body[i] \in {"e", "E"}}
    IN  IF marks = {} THEN Len(body) + 1 ELSE Smallest(marks)

Mantissa(body) == SubSeq(body, 1, ExpMark(body) - 1)
Exponent(body) == SubSeq(body, ExpMark(body) + 1, Len(body))

\* the exponent a number text gives, none being 0; one of more than six
\* digits counts as 10^6, with which every number text of less than a
\* million characters overflows or underflows as it does with its own
ExponentValue(ex) ==
    With(StripZeros(DigitVals(DigitsOf(ex))),
         LAMBDA ds : (IF ex # <<>> /\ ex[1] = "-" THEN -1 ELSE 1)
                         * (IF Len(ds) > 6 THEN 1000000 ELSE LimbAt(BigOfDigits(ds), 1)))

\* float(v), for a text v that float() takes: a sign, digits with a dot
\* among them and an exponent, of which only digits are required
FloatValue(v) ==
    LET mant == Mantissa(Unsigned(v))
        decimals == IF Contains(mant, ".")
                    THEN Len(DigitsOf(SubSeq(mant, IndexOf(mant, ".") + 1, Len(mant))))
                    ELSE 0
    IN  With(DigitVals(DigitsOf(mant)),
             LAMBDA ds : With(ExponentValue(Exponent(Unsigned(v))) - decimals,
                              LAMBDA p : RoundDouble(v[1] = "-", ds, p)))

\* int(v), for a text v that int() takes: a sign and digits
IntValue(v) ==
    With(StripZeros(DigitVals(DigitsOf(v))),
         LAMBDA mag : IF mag = <<>> THEN PyInt(FALSE, <<0>>) ELSE PyInt(v[1] = "-", mag))

\* f.is_integer()
is_integer(f) == f.cls = "finite" /\ (f.bits = <<>> \/ f.exp >= 0)

\* int(f), for a float that is a whole number
IntOfFloat(f) ==
    IF f.bits = <<>> THEN PyInt(FALSE, <<0>>)
    ELSE With(BigOfBits(f.bits),
              LAMBDA m : With(BigShl(m, f.exp), LAMBDA a : PyInt(f.neg, DigitsOfBig(a))))

\* int(f) if f.is_integer() else f
Collapsed(f) == IF is_integer(f) THEN IntOfFloat(f) ELSE f

\* num = float(m.group(1)); int(num) if num.is_integer() else num
NumValue(num) == With(FloatValue(num), LAMBDA f : Collapsed(f))

\* the entry built from the stripped text after the first colon
GetAllEntry(raw) ==
    LET m == NUM_UNIT_RE(raw)
    IN  IF ~m.ok THEN "raw" :> raw
        ELSE IF m.unit = <<>> THEN ("raw" :> raw) @@ ("value" :> NumValue(m.num))
        ELSE ("raw" :> raw) @@ ("value" :> NumValue(m.num)) @@ ("unit" :> m.unit)

PROMPT_TEXT == <<"m", "s", "h", " ", ">">>

\* the line as the loop body looks at it: stripped, a leading dot removed
GetAllLine(line) ==
    LET s == Strip(line)
    IN  IF s # <<>> /\ s[1] = "." THEN Strip(Tail(s)) ELSE s

\* the loop body skips the line
GetAllSkipped(line) ==
    \/ Strip(line) = <<>>
    \/ Strip(line) = PROMPT_TEXT
    \/ ~Contains(GetAllLine(line), ":")

GetAllKey(line) ==
    LET s == GetAllLine(line) IN Lower(Strip(SubSeq(s, 1, IndexOf(s, ":") - 1)))

GetAllRaw(line) ==
    LET s == GetAllLine(line) IN Strip(SubSeq(s, IndexOf(s, ":") + 1, Len(s)))

\* the dict after the loop went through lines, starting from out
RECURSIVE GetAllLoop(_, _)
GetAllLoop(lines, out) ==
    IF lines = <<>> THEN out
    ELSE IF GetAllSkipped(Head(lines)) THEN GetAllLoop(Tail(lines), out)
    ELSE GetAllLoop(Tail(lines),
                    (GetAllKey(Head(lines)) :> GetAllEntry(GetAllRaw(Head(lines)))) @@ out)

parse_getall_block(text) == GetAllLoop(splitlines(RemoveCR(text)), <<>>)

(***************************************************************************)
(* Inputs of parse_getall_block: at most MaxLines lines, each a key, a     *)
(* colon and a value text, or a line the parser skips, joined by line      *)
(* ends.                                                                   *)
(***************************************************************************)
GetAllKeys ==
    { <<"T", "e", "m", "p">>, <<"t", "e", "m", "p", " ">>, <<" ", ".", " ", "P", "w">> }

GetAllRaws ==
    { <<"2", "5">>, <<" ", "-", "1", ".", "5", "0">>, <<"3", ".", "0">>,
      <<"5", "0", " ", "%">>, <<"1", "2", "m", "m", "/", "s", " ">>,
      <<"a", "b", "c">>, <<"1", ".">>, <<"+", "7">>, <<>>,
      <<"1", "e", "5">>, <<"1", ":", "2">>, <<"0", ".", "2", "5", "k", "g">>,
      <<"-", "0", ".", "0">>, <<"U+0661">>,
      <<"1", "U+0663", ".", "U+FF15", "U+0660", " ", "k", "g">>,
      <<"0", ".", "9", "9", "9", "9", "9", "9", "9", "9", "9", "9", "9", "9", "9", "9", "9", "9", "9", "9", "9", "9">>,
      <<"9", "0", "0", "7", "1", "9", "9", "2", "5", "4", "7", "4", "0", "9", "9", "3", " ", "J">> }

\* lines without an entry of their own, and lines that hold line breaks and
\* whitespace other than the newline and the space
GetAllOtherLines ==
    { PROMPT_TEXT, <<>>, <<"o", "k">>, <<".">>, <<"o", "k", "\f", "a", ":", "1", "\r">>,
      <<"o", "k", "", "b", ":", "2", "", "c", ":", " ", "3", "">>,
      <<"É", " ", ":", "", "1", " ", "V", "", "µ", ":", "", "2">>,
      <<"U+212A", "U+03A3", ":", "-", "U+FF11", "U+0662">> }

GetAllLines ==
    {k \o <<":">> \o r : k \in GetAllKeys, r \in GetAllRaws} \cup GetAllOtherLines

LineEnds == { <<"\n">>, <<"\r", "\n">> }

RECURSIVE GetAllTextsOf(_)
GetAllTextsOf(n) ==
    IF n = 1 THEN GetAllLines
    ELSE LET shorter == GetAllTextsOf(n - 1) IN
         shorter \cup {t \o e \o l : t \in shorter, e \in LineEnds, l \in GetAllLines}

\* lines whose number is longer than a float is exact, or than it is finite
GetAllLongLines ==
    { <<"a", ":">> \o LongNumber, <<"a", ":", "-">> \o LongNumber \o <<" ", "m", "m">> }

GetAllTexts == GetAllTextsOf(MaxLines) \cup GetAllLongLines

GetAllIdle == ga_pc = "done" /\ ga_text = <<>> /\ ga_out = <<>>

GetAllInit == ga_pc = "start" /\ ga_text \in GetAllTexts /\ ga_out = <<>>

GetAllCall ==
    /\ ga_pc = "start"
    /\ ga_out' = parse_getall_block(ga_text)
    /\ ga_pc' = "done"
    /\ UNCHANGED <<ga_text, statusVars, processVars, policyVars, mshVars, auditVars, wsVars, hubVars>>

(***************************************************************************)
(* Regular expressions as parse_status.py uses them (re.search and         *)
(* re.findall with re.MULTILINE). A pattern is a sequence of items: a      *)
(* literal text, a repeated character class (greedy or lazy), the start or *)
(* the end of a capturing group, an optional non-capturing group, ^ or $.  *)
(* The match kept is the one the backtracking of the re module reaches     *)
(* first: a greedy class takes the longest run that lets the rest match, a *)
(* lazy one the shortest, an optional group is tried before it is skipped. *)
(***************************************************************************)
\* the alphanumeric characters beyond Latin-1
WordRanges ==
    {
      <<256, 705>>, <<710, 721>>, <<736, 740>>, <<748, 748>>, <<750, 750>>,
      <<880, 884>>, <<886, 887>>, <<890, 893>>, <<895, 895>>, <<902, 902>>,
      <<904, 906>>, <<908, 908>>, <<910, 929>>, <<931, 1013>>, <<1015, 1153>>,
      <<1162, 1327>>, <<1329, 1366>>, <<1369, 1369>>, <<1376, 1416>>,
      <<1488, 1514>>, <<1519, 1522>>, <<1568, 1610>>, <<1632, 1641>>,
      <<1646, 1647>>, <<1649, 1747>>, <<1749, 1749>>, <<1765, 1766>>,
      <<1774, 1788>>, <<1791, 1791>>, <<1808, 1808>>, <<1810, 1839>>,
      <<1869, 1957>>, <<1969, 1969>>, <<1984, 2026>>, <<2036, 2037>>,
      <<2042, 2042>>, <<2048, 2069>>, <<2074, 2074>>, <<2084, 2084>>,
      <<2088, 2088>>, <<2112, 2136>>, <<2144, 2154>>, <<2160, 2183>>,
      <<2185, 2190>>, <<2208, 2249>>, <<2308, 2361>>, <<2365, 2365>>,
      <<2384, 2384>>, <<2392, 2401>>, <<2406, 2415>>, <<2417, 2432>>,
      <<2437, 2444>>, <<2447, 2448>>, <<2451, 2472>>, <<2474, 2480>>,
      <<2482, 2482>>, <<2486, 2489>>, <<2493, 2493>>, <<2510, 2510>>,
      <<2524, 2525>>, <<2527, 2529>>, <<2534, 2545>>, <<2548, 2553>>,
      <<2556, 2556>>, <<2565, 2570>>, <<2575, 2576>>, <<2579, 2600>>,
      <<2602, 2608>>, <<2610, 2611>>, <<2613, 2614>>, <<2616, 2617>>,
      <<2649, 2652>>, <<2654, 2654>>, <<2662, 2671>>, <<2674, 2676>>,
      <<2693, 2701>>, <<2703, 2705>>, <<2707, 2728>>, <<2730, 2736>>,
      <<2738, 2739>>, <<2741, 2745>>, <<2749, 2749>>, <<2768, 2768>>,
      <<2784, 2785>>, <<2790, 2799>>, <<2809, 2809>>, <<2821, 2828>>,
      <<2831, 2832>>, <<2835, 2856>>, <<2858, 2864>>, <<2866, 2867>>,
      <<2869, 2873>>, <<2877, 2877>>, <<2908, 2909>>, <<2911, 2913>>,
      <<2918, 2927>>, <<2929, 2935>>, <<2947, 2947>>, <<2949, 2954>>,
      <<2958, 2960>>, <<2962, 2965>>, <<2969, 2970>>, <<2972, 2972>>,
      <<2974, 2975>>, <<2979, 2980>>, <<2984, 2986>>, <<2990, 3001>>,
      <<3024, 3024>>, <<3046, 3058>>, <<3077, 3084>>, <<3086, 3088>>,
      <<3090, 3112>>, <<3114, 3129>>, <<3133, 3133>>, <<3160, 3162>>,
      <<3165, 3165>>, <<3168, 3169>>, <<3174, 3183>>, <<3192, 3198>>,
      <<3200, 3200>>, <<3205, 3212>>, <<3214, 3216>>, <<3218, 3240>>,
      <<3242, 3251>>, <<3253, 3257>>, <<3261, 3261>>, <<3293, 3294>>,
      <<3296, 3297>>, <<3302, 3311>>, <<3313, 3314>>, <<3332, 3340>>,
      <<3342, 3344>>, <<3346, 3386>>, <<3389, 3389>>, <<3406, 3406>>,
      <<3412, 3414>>, <<3416, 3425>>, <<3430, 3448>>, <<3450, 3455>>,
      <<3461, 3478>>, <<3482, 3505>>, <<3507, 3515>>, <<3517, 3517>>,
      <<3520, 3526>>, <<3558, 3567>>, <<3585, 3632>>, <<3634, 3635>>,
      <<3648, 3654>>, <<3664, 3673>>, <<3713, 3714>>, <<3716, 3716>>,
      <<3718, 3722>>, <<3724, 3747>>, <<3749, 3749>>, <<3751, 3760>>,
      <<3762, 3763>>, <<3773, 3773>>, <<3776, 3780>>, <<3782, 3782>>,
      <<3792, 3801>>, <<3804, 3807>>, <<3840, 3840>>, <<3872, 3891>>,
      <<3904, 3911>>, <<3913, 3948>>, <<3976, 3980>>, <<4096, 4138>>,
      <<4159, 4169>>, <<4176, 4181>>, <<4186, 4189>>, <<4193, 4193>>,
      <<4197, 4198>>, <<4206, 4208>>, <<4213, 4225>>, <<4238, 4238>>,
      <<4240, 4249>>, <<4256, 4293>>, <<4295, 4295>>, <<4301, 4301>>,
      <<4304, 4346>>, <<4348, 4680>>, <<4682, 4685>>, <<4688, 4694>>,
      <<4696, 4696>>, <<4698, 4701>>, <<4704, 4744>>, <<4746, 4749>>,
      <<4752, 4784>>, <<4786, 4789>>, <<4792, 4798>>, <<4800, 4800>>,
      <<4802, 4805>>, <<4808, 4822>>, <<4824, 4880>>, <<4882, 4885>>,
      <<4888, 4954>>, <<4969, 4988>>, <<4992, 5007>>, <<5024, 5109>>,
      <<5112, 5117>>, <<5121, 5740>>, <<5743, 5759>>, <<5761, 5786>>,
      <<5792, 5866>>, <<5870, 5880>>, <<5888, 5905>>, <<5919, 5937>>,
      <<5952, 5969>>, <<5984, 5996>>, <<5998, 6000>>, <<6016, 6067>>,
      <<6103, 6103>>, <<6108, 6108>>, <<6112, 6121>>, <<6128, 6137>>,
      <<6160, 6169>>, <<6176, 6264>>, <<6272, 6276>>, <<6279, 6312>>,
      <<6314, 6314>>, <<6320, 6389>>, <<6400, 6430>>, <<6470, 6509>>,
      <<6512, 6516>>, <<6528, 6571>>, <<6576, 6601>>, <<6608, 6618>>,
      <<6656, 6678>>, <<6688, 6740>>, <<6784, 6793>>, <<6800, 6809>>,
      <<6823, 6823>>, <<6917, 6963>>, <<6981, 6988>>, <<6992, 7001>>,
      <<7043, 7072>>, <<7086, 7141>>, <<7168, 7203>>, <<7232, 7241>>,
      <<7245, 7293>>, <<7296, 7304>>, <<7312, 7354>>, <<7357, 7359>>,
      <<7401, 7404>>, <<7406, 7411>>, <<7413, 7414>>, <<7418, 7418>>,
      <<7424, 7615>>, <<7680, 7957>>, <<7960, 7965>>, <<7968, 8005>>,
      <<8008, 8013>>, <<8016, 8023>>, <<8025, 8025>>, <<8027, 8027>>,
      <<8029, 8029>>, <<8031, 8061>>, <<8064, 8116>>, <<8118, 8124>>,
      <<8126, 8126>>, <<8130, 8132>>, <<8134, 8140>>, <<8144, 8147>>,
      <<8150, 8155>>, <<8160, 8172>>, <<8178, 8180>>, <<8182, 8188>>,
      <<8304, 8305>>, <<8308, 8313>>, <<8319, 8329>>, <<8336, 8348>>,
      <<8450, 8450>>, <<8455, 8455>>, <<8458, 8467>>, <<8469, 8469>>,
      <<8473, 8477>>, <<8484, 8484>>, <<8486, 8486>>, <<8488, 8488>>,
      <<8490, 8493>>, <<8495, 8505>>, <<8508, 8511>>, <<8517, 8521>>,
      <<8526, 8526>>, <<8528, 8585>>, <<9312, 9371>>, <<9450, 9471>>,
      <<10102, 10131>>, <<11264, 11492>>, <<11499, 11502>>, <<11506, 11507>>,
      <<11517, 11517>>, <<11520, 11557>>, <<11559, 11559>>, <<11565, 11565>>,
      <<11568, 11623>>, <<11631, 11631>>, <<11648, 11670>>, <<11680, 11686>>,
      <<11688, 11694>>, <<11696, 11702>>, <<11704, 11710>>, <<11712, 11718>>,
      <<11720, 11726>>, <<11728, 11734>>, <<11736, 11742>>, <<11823, 11823>>,
      <<12293, 12295>>, <<12321, 12329>>, <<12337, 12341>>, <<12344, 12348>>,
      <<12353, 12438>>, <<12445, 12447>>, <<12449, 12538>>, <<12540, 12543>>,
      <<12549, 12591>>, <<12593, 12686>>, <<12690, 12693>>, <<12704, 12735>>,
      <<12784, 12799>>, <<12832, 12841>>, <<12872, 12879>>, <<12881, 12895>>,
      <<12928, 12937>>, <<12977, 12991>>, <<13312, 19903>>, <<19968, 42124>>,
      <<42192, 42237>>, <<42240, 42508>>, <<42512, 42539>>, <<42560, 42606>>,
      <<42623, 42653>>, <<42656, 42735>>, <<42775, 42783>>, <<42786, 42888>>,
      <<42891, 42954>>, <<42960, 42961>>, <<42963, 42963>>, <<42965, 42969>>,
      <<42994, 43009>>, <<43011, 43013>>, <<43015, 43018>>, <<43020, 43042>>,
      <<43056, 43061>>, <<43072, 43123>>, <<43138, 43187>>, <<43216, 43225>>,
      <<43250, 43255>>, <<43259, 43259>>, <<43261, 43262>>, <<43264, 43301>>,
      <<43312, 43334>>, <<43360, 43388>>, <<43396, 43442>>, <<43471, 43481>>,
      <<43488, 43492>>, <<43494, 43518>>, <<43520, 43560>>, <<43584, 43586>>,
      <<43588, 43595>>, <<43600, 43609>>, <<43616, 43638>>, <<43642, 43642>>,
      <<43646, 43695>>, <<43697, 43697>>, <<43701, 43702>>, <<43705, 43709>>,
      <<43712, 43712>>, <<43714, 43714>>, <<43739, 43741>>, <<43744, 43754>>,
      <<43762, 43764>>, <<43777, 43782>>, <<43785, 43790>>, <<43793, 43798>>,
      <<43808, 43814>>, <<43816, 43822>>, <<43824, 43866>>, <<43868, 43881>>,
      <<43888, 44002>>, <<44016, 44025>>, <<44032, 55203>>, <<55216, 55238>>,
      <<55243, 55291>>, <<63744, 64109>>, <<64112, 64217>>, <<64256, 64262>>,
      <<64275, 64279>>, <<64285, 64285>>, <<64287, 64296>>, <<64298, 64310>>,
      <<64312, 64316>>, <<64318, 64318>>, <<64320, 64321>>, <<64323, 64324>>,
      <<64326, 64433>>, <<64467, 64829>>, <<64848, 64911>>, <<64914, 64967>>,
      <<65008, 65019>>, <<65136, 65140>>, <<65142, 65276>>, <<65296, 65305>>,
      <<65313, 65338>>, <<65345, 65370>>, <<65382, 65470>>, <<65474, 65479>>,
      <<65482, 65487>>, <<65490, 65495>>, <<65498, 65500>>, <<65536, 65547>>,
      <<65549, 65574>>, <<65576, 65594>>, <<65596, 65597>>, <<65599, 65613>>,
      <<65616, 65629>>, <<65664, 65786>>, <<65799, 65843>>, <<65856, 65912>>,
      <<65930, 65931>>, <<66176, 66204>>, <<66208, 66256>>, <<66273, 66299>>,
      <<66304, 66339>>, <<66349, 66378>>, <<66384, 66421>>, <<66432, 66461>>,
      <<66464, 66499>>, <<66504, 66511>>, <<66513, 66517>>, <<66560, 66717>>,
      <<66720, 66729>>, <<66736, 66771>>, <<66776, 66811>>, <<66816, 66855>>,
      <<66864, 66915>>, <<66928, 66938>>, <<66940, 66954>>, <<66956, 66962>>,
      <<66964, 66965>>, <<66967, 66977>>, <<66979, 66993>>, <<66995, 67001>>,
      <<67003, 67004>>, <<67072, 67382>>, <<67392, 67413>>, <<67424, 67431>>,
      <<67456, 67461>>, <<67463, 67504>>, <<67506, 67514>>, <<67584, 67589>>,
      <<67592, 67592>>, <<67594, 67637>>, <<67639, 67640>>, <<67644, 67644>>,
      <<67647, 67669>>, <<67672, 67702>>, <<67705, 67742>>, <<67751, 67759>>,
      <<67808, 67826>>, <<67828, 67829>>, <<67835, 67867>>, <<67872, 67897>>,
      <<67968, 68023>>, <<68028, 68047>>, <<68050, 68096>>, <<68112, 68115>>,
      <<68117, 68119>>, <<68121, 68149>>, <<68160, 68168>>, <<68192, 68222>>,
      <<68224, 68255>>, <<68288, 68295>>, <<68297, 68324>>, <<68331, 68335>>,
      <<68352, 68405>>, <<68416, 68437>>, <<68440, 68466>>, <<68472, 68497>>,
      <<68521, 68527>>, <<68608, 68680>>, <<68736, 68786>>, <<68800, 68850>>,
      <<68858, 68899>>, <<68912, 68921>>, <<69216, 69246>>, <<69248, 69289>>,
      <<69296, 69297>>, <<69376, 69415>>, <<69424, 69445>>, <<69457, 69460>>,
      <<69488, 69505>>, <<69552, 69579>>, <<69600, 69622>>, <<69635, 69687>>,
      <<69714, 69743>>, <<69745, 69746>>, <<69749, 69749>>, <<69763, 69807>>,
      <<69840, 69864>>, <<69872, 69881>>, <<69891, 69926>>, <<69942, 69951>>,
      <<69956, 69956>>, <<69959, 69959>>, <<69968, 70002>>, <<70006, 70006>>,
      <<70019, 70066>>, <<70081, 70084>>, <<70096, 70106>>, <<70108, 70108>>,
      <<70113, 70132>>, <<70144, 70161>>, <<70163, 70187>>, <<70272, 70278>>,
      <<70280, 70280>>, <<70282, 70285>>, <<70287, 70301>>, <<70303, 70312>>,
      <<70320, 70366>>, <<70384, 70393>>, <<70405, 70412>>, <<70415, 70416>>,
      <<70419, 70440>>, <<70442, 70448>>, <<70450, 70451>>, <<70453, 70457>>,
      <<70461, 70461>>, <<70480, 70480>>, <<70493, 70497>>, <<70656, 70708>>,
      <<70727, 70730>>, <<70736, 70745>>, <<70751, 70753>>, <<70784, 70831>>,
      <<70852, 70853>>, <<70855, 70855>>, <<70864, 70873>>, <<71040, 71086>>,
      <<71128, 71131>>, <<71168, 71215>>, <<71236, 71236>>, <<71248, 71257>>,
      <<71296, 71338>>, <<71352, 71352>>, <<71360, 71369>>, <<71424, 71450>>,
      <<71472, 71483>>, <<71488, 71494>>, <<71680, 71723>>, <<71840, 71922>>,
      <<71935, 71942>>, <<71945, 71945>>, <<71948, 71955>>, <<71957, 71958>>,
      <<71960, 71983>>, <<71999, 71999>>, <<72001, 72001>>, <<72016, 72025>>,
      <<72096, 72103>>, <<72106, 72144>>, <<72161, 72161>>, <<72163, 72163>>,
      <<72192, 72192>>, <<72203, 72242>>, <<72250, 72250>>, <<72272, 72272>>,
      <<72284, 72329>>, <<72349, 72349>>, <<72368, 72440>>, <<72704, 72712>>,
      <<72714, 72750>>, <<72768, 72768>>, <<72784, 72812>>, <<72818, 72847>>,
      <<72960, 72966>>, <<72968, 72969>>, <<72971, 73008>>, <<73030, 73030>>,
      <<73040, 73049>>, <<73056, 73061>>, <<73063, 73064>>, <<73066, 73097>>,
      <<73112, 73112>>, <<73120, 73129>>, <<73440, 73458>>, <<73648, 73648>>,
      <<73664, 73684>>, <<73728, 74649>>, <<74752, 74862>>, <<74880, 75075>>,
      <<77712, 77808>>, <<77824, 78894>>, <<82944, 83526>>, <<92160, 92728>>,
      <<92736, 92766>>, <<92768, 92777>>, <<92784, 92862>>, <<92864, 92873>>,
      <<92880, 92909>>, <<92928, 92975>>, <<92992, 92995>>, <<93008, 93017>>,
      <<93019, 93025>>, <<93027, 93047>>, <<93053, 93071>>, <<93760, 93846>>,
      <<93952, 94026>>, <<94032, 94032>>, <<94099, 94111>>, <<94176, 94177>>,
      <<94179, 94179>>, <<94208, 100343>>, <<100352, 101589>>,
      <<101632, 101640>>, <<110576, 110579>>, <<110581, 110587>>,
      <<110589, 110590>>, <<110592, 110882>>, <<110928, 110930>>,
      <<110948, 110951>>, <<110960, 111355>>, <<113664, 113770>>,
      <<113776, 113788>>, <<113792, 113800>>, <<113808, 113817>>,
      <<119520, 119539>>, <<119648, 119672>>, <<119808, 119892>>,
      <<119894, 119964>>, <<119966, 119967>>, <<119970, 119970>>,
      <<119973, 119974>>, <<119977, 119980>>, <<119982, 119993>>,
      <<119995, 119995>>, <<119997, 120003>>, <<120005, 120069>>,
      <<120071, 120074>>, <<120077, 120084>>, <<120086, 120092>>,
      <<120094, 120121>>, <<120123, 120126>>, <<120128, 120132>>,
      <<120134, 120134>>, <<120138, 120144>>, <<120146, 120485>>,
      <<120488, 120512>>, <<120514, 120538>>, <<120540, 120570>>,
      <<120572, 120596>>, <<120598, 120628>>, <<120630, 120654>>,
      <<120656, 120686>>, <<120688, 120712>>, <<120714, 120744>>,
      <<120746, 120770>>, <<120772, 120779>>, <<120782, 120831>>,
      <<122624, 122654>>, <<123136, 123180>>, <<123191, 123197>>,
      <<123200, 123209>>, <<123214, 123214>>, <<123536, 123565>>,
      <<123584, 123627>>, <<123632, 123641>>, <<124896, 124902>>,
      <<124904, 124907>>, <<124909, 124910>>, <<124912, 124926>>,
      <<124928, 125124>>, <<125127, 125135>>, <<125184, 125251>>,
      <<125259, 125259>>, <<125264, 125273>>, <<126065, 126123>>,
      <<126125, 126127>>, <<126129, 126132>>, <<126209, 126253>>,
      <<126255, 126269>>, <<126464, 126467>>, <<126469, 126495>>,
      <<126497, 126498>>, <<126500, 126500>>, <<126503, 126503>>,
      <<126505, 126514>>, <<126516, 126519>>, <<126521, 126521>>,
      <<126523, 126523>>, <<126530, 126530>>, <<126535, 126535>>,
      <<126537, 126537>>, <<126539, 126539>>, <<126541, 126543>>,
      <<126545, 126546>>, <<126548, 126548>>, <<126551, 126551>>,
      <<126553, 126553>>, <<126555, 126555>>, <<126557, 126557>>,
      <<126559, 126559>>, <<126561, 126562>>, <<126564, 126564>>,
      <<126567, 126570>>, <<126572, 126578>>, <<126580, 126583>>,
      <<126585, 126588>>, <<126590, 126590>>, <<126592, 126601>>,
      <<126603, 126619>>, <<126625, 126627>>, <<126629, 126633>>,
      <<126635, 126651>>, <<127232, 127244>>, <<130032, 130041>>,
      <<131072, 173791>>, <<173824, 177976>>, <<177984, 178205>>,
      <<178208, 183969>>, <<183984, 191456>>, <<194560, 195101>>,
      <<196608, 201546>> }

\* \w: the alphanumeric characters and the underscore
WordChars ==
    Range(UpperAlpha) \cup Range(LowerAlpha) \cup AsciiDigits \cup {"_"}
        \cup Range(UpperLatin) \cup Range(LowerLatin)
        \cup { "ª", "²", "³", "µ", "¹", "º", "¼", "½", "¾", "ß", "ÿ" }
        \cup Beyond(WordRanges)

\* the upper limit of a repetition that has none
ReMany == -1

ReClass(S, neg, lo, hi, lazy) ==
    [k |-> "set", S |-> S, neg |-> neg, lo |-> lo, hi |-> hi, lazy |-> lazy]
ReOne(S) == ReClass(S, FALSE, 1, 1, FALSE)
ReMaybe(S) == ReClass(S, FALSE, 0, 1, FALSE)
ReStar(S) == ReClass(S, FALSE, 0, ReMany, FALSE)
RePlus(S) == ReClass(S, FALSE, 1, ReMany, FALSE)
\* .+ and .*? (the dot matches everything but a newline)
ReDotPlus == ReClass({"\n"}, TRUE, 1, ReMany, FALSE)
ReDotStar == ReClass({"\n"}, TRUE, 0, ReMany, FALSE)
ReDotStarLazy == ReClass({"\n"}, TRUE, 0, ReMany, TRUE)
ReOpen(g) == [k |-> "open", g |-> g]
ReClose(g) == [k |-> "close", g |-> g]
ReOpt(items) == [k |-> "opt", items |-> items]
ReBol == [k |-> "bol"]
ReEol == [k |-> "eol"]
\* a literal text
ReLit(s) == <<[k |-> "lit", s |-> s]>>
\* (class+) as group g
ReGroup(g, item) == <<ReOpen(g), item, ReClose(g)>>

ReFail == [ok |-> FALSE, caps |-> <<>>, end |-> 0]

ReIn(ch, it) == IF it.neg THEN ch \notin it.S ELSE ch \in it.S

\* how many characters from pos on the class item can take
ReRun(it, text, pos) ==
    LET stops == {j \in pos .. Len(text) + 1 : j = Len(text) + 1 \/ ~ReIn(text[j], it)}
        run == (CHOOSE j \in stops : \A i \in stops : j <= i) - pos
    IN  IF it.hi # ReMany /\ run > it.hi THEN it.hi ELSE run

\* the literal s is at pos
ReLitAt(s, text, pos) ==
    pos + Len(s) - 1 <= Len(text) /\ SubSeq(text, pos, pos + Len(s) - 1) = s

\* the attempt a class item keeps of those it made, one for each length it
\* can take: the longest that lets the rest match when greedy, the shortest
\* when lazy
RePick(lazy, tries) ==
    IF \A t \in tries : ~t.r.ok THEN ReFail
    ELSE With(CHOOSE t \in tries :
                  /\ t.r.ok
                  /\ \A o \in tries : o.r.ok => IF lazy THEN t.n <= o.n ELSE t.n >= o.n,
              LAMBDA t : t.r)

\* the pattern matched at pos: ok, the groups as <<start, end>> (end excluded)
\* and the position after the match
RECURSIVE ReMatch(_, _, _, _)
ReMatch(items, text, pos, caps) ==
    IF items = <<>> THEN [ok |-> TRUE, caps |-> caps, end |-> pos]
    ELSE CASE items[1].k = "bol" ->
                IF pos = 1 \/ text[pos - 1] = "\n"
                THEN ReMatch(Tail(items), text, pos, caps) ELSE ReFail
           [] items[1].k = "eol" ->
                IF pos = Len(text) + 1 \/ text[pos] = "\n"
                THEN ReMatch(Tail(items), text, pos, caps) ELSE ReFail
           [] items[1].k = "lit" ->
                IF ReLitAt(items[1].s, text, pos)
                THEN ReMatch(Tail(items), text, pos + Len(items[1].s), caps) ELSE ReFail
           [] items[1].k = "open" ->
                ReMatch(Tail(items), text, pos, (items[1].g :> <<pos, pos>>) @@ caps)
           [] items[1].k = "close" ->
                ReMatch(Tail(items), text, pos,
                        (items[1].g :> <<caps[items[1].g][1], pos>>) @@ caps)
           [] items[1].k = "opt" ->
                With(ReMatch(items[1].items \o Tail(items), text, pos, caps),
                     LAMBDA r : IF r.ok THEN r ELSE ReMatch(Tail(items), text, pos, caps))
           [] items[1].k = "set" ->
                With({[n |-> n, r |-> ReMatch(Tail(items), text, pos + n, caps)] :
                          n \in items[1].lo .. ReRun(items[1], text, pos)},
                     LAMBDA tries : RePick(items[1].lazy, tries))

\* re.search(pat, text[from:]): the first position from which the pattern
\* matches; group 0 is the whole match
ReSearchFrom(items, text, from) ==
    With({[p |-> p, r |-> ReMatch(items, text, p, <<>>)] : p \in from .. Len(text) + 1},
         LAMBDA tries :
             IF \A t \in tries : ~t.r.ok THEN ReFail
             ELSE With(CHOOSE t \in tries : t.r.ok /\ \A o \in tries : o.r.ok => t.p <= o.p,
                       LAMBDA t : [ok |-> TRUE, caps |-> (0 :> <<t.p, t.r.end>>) @@ t.r.caps,
                                   end |-> t.r.end]))

ReSearch(items, text) == ReSearchFrom(items, text, 1)

\* m.group(g)
ReGroupText(text, m, g) == SubSeq(text, m.caps[g][1], m.caps[g][2] - 1)

\* re.findall(pat, text): the matches from left to right, none overlapping
\* (every pattern used with findall matches at least one character)
RECURSIVE ReFindAllFrom(_, _, _)
ReFindAllFrom(items, text, from) ==
    With(ReSearchFrom(items, text, from),
         LAMBDA m : IF ~m.ok THEN <<>> ELSE <<m>> \o ReFindAllFrom(items, text, m.end))

ReFindAll(items, text) == ReFindAllFrom(items, text, 1)

(***************************************************************************)
(* parse_status.py: the patterns of parse_status_block.                    *)
(***************************************************************************)
Letters == Range(UpperAlpha) \cup Range(LowerAlpha)
HexChars == AsciiDigits \cup {"A", "B", "C", "D", "E", "F", "a", "b", "c", "d", "e", "f"}
\* [0-9.]
DigitsDot == AsciiDigits \cup {"."}
ReWs == ReStar(Whitespace)
\* [-+]?\d+(?:\.\d+)?
ReNumber == <<ReMaybe({"-", "+"}), RePlus(Digits), ReOpt(<<ReOne({"."}), RePlus(Digits)>>)>>
ReNumberGroup(g) == <<ReOpen(g)>> \o ReNumber \o <<ReClose(g)>>

\* ^prefix\s*(.+)$
PatLine(prefix) ==
    <<ReBol>> \o ReLit(prefix) \o <<ReWs>> \o ReGroup(1, ReDotPlus) \o <<ReEol>>
\* ^prefix\s*(\d+)\s*(?:[A-Za-z]+)?\s*$
PatPulse(prefix) ==
    <<ReBol>> \o ReLit(prefix) \o <<ReWs>> \o ReGroup(1, RePlus(Digits))
        \o <<ReWs, ReOpt(<<RePlus(Letters)>>), ReWs, ReEol>>
PatPowerOnTime == PatLine(<<"P", "o", "w", "e", "r", "-", "O", "N", " ", "t", "i", "m", "e", ":">>)
PatRtcTime == PatLine(<<"R", "T", "C", " ", "t", "i", "m", "e", ":">>)
PatWorkMode == PatLine(<<"W", "o", "r", "k", " ", "M", "o", "d", "e", ":">>)
PatWorkState == PatLine(<<"W", "o", "r", "k", " ", "S", "t", "a", "t", "e", ":">>)
PatLaserState == PatLine(<<"l", "a", "s", "e", "r", " ", "S", "t", "a", "t", "e", ":">>)
PatIoState == PatLine(<<"I", "O", " ", "s", "t", "a", "t", "e", ":">>)
PatDriveVolt == PatLine(<<"D", "r", "i", "v", "e", " ", "v", "o", "l", "t", "1", "~", "2", ":">>)
PatDriveCurrent == PatLine(<<"D", "r", "i", "v", "e", " ", "c", "u", "r", "r", "e", "n", "t", "1", "~", "4", ":">>)
PatNtc14 == PatLine(<<"N", "T", "C", "1", "~", "4", ":">>)
PatNtc58 == PatLine(<<"N", "T", "C", "5", "~", "8", ":">>)
PatPulseOn == PatPulse(<<"p", "u", "l", "s", "e", "_", "o", "n", ":">>)
PatPulseOff == PatPulse(<<"p", "u", "l", "s", "e", "_", "o", "f", "f", ":">>)
\* ^wave\s+state:\s*(\d+)\s*$
PatWave ==
    <<ReBol>> \o ReLit(<<"w", "a", "v", "e">>) \o <<RePlus(Whitespace)>> \o ReLit(<<"s", "t", "a", "t", "e", ":">>) \o <<ReWs>>
        \o ReGroup(1, RePlus(Digits)) \o <<ReWs, ReEol>>
\* ([A-Z0-9_]+)\((\d+)\)
PatIoFlag ==
    ReGroup(1, RePlus(Range(UpperAlpha) \cup AsciiDigits \cup {"_"})) \o ReLit(<<"(">>)
        \o ReGroup(2, RePlus(Digits)) \o ReLit(<<")">>)
\* ^Power Out:\s*([0-9.]+)%.*?\(\s*([0-9]+)\s*w\),DAC\((\d+)\),state\((\w+)\)\s*$
PatPowerOut ==
    <<ReBol>> \o ReLit(<<"P", "o", "w", "e", "r", " ", "O", "u", "t", ":">>) \o <<ReWs>> \o ReGroup(1, RePlus(DigitsDot))
        \o ReLit(<<"%">>) \o <<ReDotStarLazy>> \o ReLit(<<"(">>) \o <<ReWs>>
        \o ReGroup(2, RePlus(AsciiDigits)) \o <<ReWs>> \o ReLit(<<"w", ")", ",", "D", "A", "C", "(">>)
        \o ReGroup(3, RePlus(Digits)) \o ReLit(<<")", ",", "s", "t", "a", "t", "e", "(">>)
        \o ReGroup(4, RePlus(WordChars)) \o ReLit(<<")">>) \o <<ReWs, ReEol>>
\* ^Power Param:\s*power\(([-+]?\d+(?:\.\d+)?)\),pwm_fre\((\d+)\),pwm_duty\((\d+)\)\s*$
PatPowerParam ==
    <<ReBol>> \o ReLit(<<"P", "o", "w", "e", "r", " ", "P", "a", "r", "a", "m", ":">>) \o <<ReWs>> \o ReLit(<<"p", "o", "w", "e", "r", "(">>)
        \o ReNumberGroup(1) \o ReLit(<<")", ",", "p", "w", "m", "_", "f", "r", "e", "(">>) \o ReGroup(2, RePlus(Digits))
        \o ReLit(<<")", ",", "p", "w", "m", "_", "d", "u", "t", "y", "(">>) \o ReGroup(3, RePlus(Digits)) \o ReLit(<<")">>)
        \o <<ReWs, ReEol>>
\* ^Power drive:\s*([-+]?\d+(?:\.\d+)?)\s*V,\s*([-+]?\d+(?:\.\d+)?)\s*A\s*$
PatPowerDrive ==
    <<ReBol>> \o ReLit(<<"P", "o", "w", "e", "r", " ", "d", "r", "i", "v", "e", ":">>) \o <<ReWs>> \o ReNumberGroup(1) \o <<ReWs>>
        \o ReLit(<<"V", ",">>) \o <<ReWs>> \o ReNumberGroup(2) \o <<ReWs>> \o ReLit(<<"A">>)
        \o <<ReWs, ReEol>>
\* ^Energy:\s*state\((\d+)\),\((\d+)\s*J\),DAC\((\d+)\)\s*$
PatEnergy ==
    <<ReBol>> \o ReLit(<<"E", "n", "e", "r", "g", "y", ":">>) \o <<ReWs>> \o ReLit(<<"s", "t", "a", "t", "e", "(">>)
        \o ReGroup(1, RePlus(Digits)) \o ReLit(<<")", ",", "(">>) \o ReGroup(2, RePlus(Digits))
        \o <<ReWs>> \o ReLit(<<"J", ")", ",", "D", "A", "C", "(">>) \o ReGroup(3, RePlus(Digits)) \o ReLit(<<")">>)
        \o <<ReWs, ReEol>>
\* ^Pilot State:\s*([0-9.]+)mA,ADC\((\d+)\),\s*DAC\((\d+)\),\s*\((\w+)\),\s*mode\((\d+)\)\s*$
PatPilot ==
    <<ReBol>> \o ReLit(<<"P", "i", "l", "o", "t", " ", "S", "t", "a", "t", "e", ":">>) \o <<ReWs>> \o ReGroup(1, RePlus(DigitsDot))
        \o ReLit(<<"m", "A", ",", "A", "D", "C", "(">>) \o ReGroup(2, RePlus(Digits)) \o ReLit(<<")", ",">>) \o <<ReWs>>
        \o ReLit(<<"D", "A", "C", "(">>) \o ReGroup(3, RePlus(Digits)) \o ReLit(<<")", ",">>) \o <<ReWs>>
        \o ReLit(<<"(">>) \o ReGroup(4, RePlus(WordChars)) \o ReLit(<<")", ",">>) \o <<ReWs>>
        \o ReLit(<<"m", "o", "d", "e", "(">>) \o ReGroup(5, RePlus(Digits)) \o ReLit(<<")">>) \o <<ReWs, ReEol>>
\* ^PD Voltage:\s*([0-9.]+)mV,ADC\((\d+)\)\s*$
PatPd ==
    <<ReBol>> \o ReLit(<<"P", "D", " ", "V", "o", "l", "t", "a", "g", "e", ":">>) \o <<ReWs>> \o ReGroup(1, RePlus(DigitsDot))
        \o ReLit(<<"m", "V", ",", "A", "D", "C", "(">>) \o ReGroup(2, RePlus(Digits)) \o ReLit(<<")">>) \o <<ReWs, ReEol>>
\* ([-+]?\d+(?:\.\d+)?)C,ADC\((\d+)\)
PatNtc ==
    ReNumberGroup(1) \o ReLit(<<"C", ",", "A", "D", "C", "(">>) \o ReGroup(2, RePlus(Digits)) \o ReLit(<<")">>)
\* ^prefix\s*([0-9.]+)unit,ADC\((\d+)\)\s*$ with unit a sequence of items
PatAdc(prefix, unit) ==
    <<ReBol>> \o ReLit(prefix) \o <<ReWs>> \o ReGroup(1, RePlus(DigitsDot)) \o unit
        \o ReLit(<<",", "A", "D", "C", "(">>) \o ReGroup(2, RePlus(Digits)) \o ReLit(<<")">>) \o <<ReWs, ReEol>>
PatPressure == PatAdc(<<"P", "r", "e", "s", "s", "u", "r", "e", ":">>, <<>>)
PatAirHR == PatAdc(<<"A", "i", "r", "H", "R", ":">>, <<ReMaybe({"%"})>>)
PatAirT == PatAdc(<<"A", "i", "r", "T", ":">>, ReLit(<<"C">>))
\* ^Temp:\s*([0-9.]+)\s*C\s*Pres:\s*([0-9.]+)\s*KPa\s*$
PatTemp ==
    <<ReBol>> \o ReLit(<<"T", "e", "m", "p", ":">>) \o <<ReWs>> \o ReGroup(1, RePlus(DigitsDot)) \o <<ReWs>>
        \o ReLit(<<"C">>) \o <<ReWs>> \o ReLit(<<"P", "r", "e", "s", ":">>) \o <<ReWs>>
        \o ReGroup(2, RePlus(DigitsDot)) \o <<ReWs>> \o ReLit(<<"K", "P", "a">>) \o <<ReWs, ReEol>>
\* ^Dew:\s*([0-9.]+)\s*$
PatDew ==
    <<ReBol>> \o ReLit(<<"D", "e", "w", ":">>) \o <<ReWs>> \o ReGroup(1, RePlus(DigitsDot)) \o <<ReWs, ReEol>>
\* ^NAME\((0x[0-9A-Fa-f]+)\):\s*(.+)\s*$, for LOCK with (.*)
PatMask(name, body) ==
    <<ReBol>> \o ReLit(name) \o ReLit(<<"(">>) \o <<ReOpen(1)>> \o ReLit(<<"0", "x">>)
        \o <<RePlus(HexChars), ReClose(1)>> \o ReLit(<<")", ":">>) \o <<ReWs>>
        \o ReGroup(2, body) \o <<ReWs, ReEol>>
PatWarning == PatMask(<<"W", "A", "R", "N", "I", "N", "G">>, ReDotPlus)
PatError == PatMask(<<"E", "R", "R", "O", "R">>, ReDotPlus)
PatLock == PatMask(<<"L", "O", "C", "K">>, ReDotStar)
\* ^TEM:(\d+)\s*$
PatTem ==
    <<ReBol>> \o ReLit(<<"T", "E", "M", ":">>) \o ReGroup(1, RePlus(Digits)) \o <<ReWs, ReEol>>

(***************************************************************************)
(* parse_status.py: parse_status_block applied to one text. The result is  *)
(* [raised, out]: raised when a float() or an int() call raises            *)
(* ValueError, out the dict returned otherwise. Values are Python numbers  *)
(* as in parse_getall_block.                                               *)
(***************************************************************************)
\* float(s) raises ValueError: no digit, or more than one dot
FloatRaises(s) ==
    \/ \A i \in DOMAIN s : s[i] \notin Digits
    \/ Cardinality({i \in DOMAIN s : s[i] = "."}) > 1

\* int(s) raises ValueError, for a text of digits
IntRaises(s) == Len(s) > MaxStrDigits

\* _find1: group 1 of the first match, <<>> for None
find1(pat, text) ==
    With(ReSearch(pat, text),
         LAMBDA m : IF m.ok THEN ReGroupText(text, m, 1) ELSE <<>>)

\* out[key] = v when v is truthy
StrField(key, pat, text) ==
    With(find1(pat, text), LAMBDA v : IF v # <<>> THEN key :> v ELSE <<>>)

\* out[key] = int(v) when v is truthy
IntField(key, pat, text) ==
    With(find1(pat, text), LAMBDA v : IF v # <<>> THEN key :> IntValue(v) ELSE <<>>)

\* the dict built from the findall pairs, a later name replacing an earlier
RECURSIVE IoFlags(_, _)
IoFlags(v, ms) ==
    IF ms = <<>> THEN <<>>
    ELSE With(ms[Len(ms)],
              LAMBDA m : (ReGroupText(v, m, 1) :> IntValue(ReGroupText(v, m, 2)))
                             @@ IoFlags(v, SubSeq(ms, 1, Len(ms) - 1)))

IoField(text) ==
    With(find1(PatIoState, text),
         LAMBDA v : IF v # <<>>
                    THEN "io_flags" :> With(ReFindAll(PatIoFlag, v), LAMBDA ms : IoFlags(v, ms))
                    ELSE <<>>)

\* the floats of the matches ms in v, at most n of them
FloatList(v, ms, n) ==
    [i \in 1 .. (IF Len(ms) < n THEN Len(ms) ELSE n) |-> FloatValue(ReGroupText(v, ms[i], 0))]

\* _find_float_list: the floats found in group 1, at most n of them
FloatListField(key, pat, n, text) ==
    With(ReSearch(pat, text),
         LAMBDA m : IF m.ok
                    THEN With(ReGroupText(text, m, 1),
                              LAMBDA v : With(ReFindAll(ReNumber, v),
                                              LAMBDA ms : key :> FloatList(v, ms, n)))
                    ELSE <<>>)

PowerOutField(text) ==
    With(ReSearch(PatPowerOut, text),
         LAMBDA m : IF m.ok
                    THEN "power_out" :> [pct |-> FloatValue(ReGroupText(text, m, 1)),
                                         w |-> IntValue(ReGroupText(text, m, 2)),
                                         dac |-> IntValue(ReGroupText(text, m, 3)),
                                         state |-> ReGroupText(text, m, 4)]
                    ELSE <<>>)

PowerParamField(text) ==
    With(ReSearch(PatPowerParam, text),
         LAMBDA m : IF m.ok
                    THEN "power_param" :> [power |-> FloatValue(ReGroupText(text, m, 1)),
                                           pwm_fre |-> IntValue(ReGroupText(text, m, 2)),
                                           pwm_duty |-> IntValue(ReGroupText(text, m, 3))]
                    ELSE <<>>)

PowerDriveField(text) ==
    With(ReSearch(PatPowerDrive, text),
         LAMBDA m : IF m.ok
                    THEN "power_drive" :> [v |-> FloatValue(ReGroupText(text, m, 1)),
                                           a |-> FloatValue(ReGroupText(text, m, 2))]
                    ELSE <<>>)

EnergyField(text) ==
    With(ReSearch(PatEnergy, text),
         LAMBDA m : IF m.ok
                    THEN "energy" :> [state |-> IntValue(ReGroupText(text, m, 1)),
                                      j |-> IntValue(ReGroupText(text, m, 2)),
                                      dac |-> IntValue(ReGroupText(text, m, 3))]
                    ELSE <<>>)

PilotField(text) ==
    With(ReSearch(PatPilot, text),
         LAMBDA m : IF m.ok
                    THEN "pilot" :> [ma |-> FloatValue(ReGroupText(text, m, 1)),
                                     adc |-> IntValue(ReGroupText(text, m, 2)),
                                     dac |-> IntValue(ReGroupText(text, m, 3)),
                                     onoff |-> ReGroupText(text, m, 4),
                                     mode |-> IntValue(ReGroupText(text, m, 5))]
                    ELSE <<>>)

PdField(text) ==
    With(ReSearch(PatPd, text),
         LAMBDA m : IF m.ok
                    THEN "pd" :> [mv |-> FloatValue(ReGroupText(text, m, 1)),
                                  adc |-> IntValue(ReGroupText(text, m, 2))]
                    ELSE <<>>)

\* _parse_ntc_line
parse_ntc_line(line) ==
    With(ReFindAll(PatNtc, line),
         LAMBDA ms : [i \in DOMAIN ms |-> [c |-> FloatValue(ReGroupText(line, ms[i], 1)),
                                           adc |-> IntValue(ReGroupText(line, ms[i], 2))]])

\* ntc.extend(_parse_ntc_line(v)) when v is truthy
NtcLine(pat, text) ==
    With(find1(pat, text), LAMBDA v : IF v # <<>> THEN parse_ntc_line(v) ELSE <<>>)

NtcField(text) ==
    With(NtcLine(PatNtc14, text) \o NtcLine(PatNtc58, text),
         LAMBDA ntc : IF ntc # <<>> THEN "ntc" :> ntc ELSE <<>>)

PressureField(text) ==
    With(ReSearch(PatPressure, text),
         LAMBDA m : IF m.ok
                    THEN "pressure" :> [value |-> FloatValue(ReGroupText(text, m, 1)),
                                        adc |-> IntValue(ReGroupText(text, m, 2))]
                    ELSE <<>>)

AirHRField(text) ==
    With(ReSearch(PatAirHR, text),
         LAMBDA m : IF m.ok
                    THEN "air_hr" :> [value |-> FloatValue(ReGroupText(text, m, 1)),
                                      adc |-> IntValue(ReGroupText(text, m, 2))]
                    ELSE <<>>)

AirTField(text) ==
    With(ReSearch(PatAirT, text),
         LAMBDA m : IF m.ok
                    THEN "air_t" :> [value_c |-> FloatValue(ReGroupText(text, m, 1)),
                                     adc |-> IntValue(ReGroupText(text, m, 2))]
                    ELSE <<>>)

\* out["env"] of the Temp match m and the Dew text dew
EnvOf(text, m, dew) ==
    IF m.ok \/ dew # <<>>
    THEN "env" :> [temp_c |-> IF m.ok THEN FloatValue(ReGroupText(text, m, 1)) ELSE NaN,
                   pres_kpa |-> IF m.ok THEN FloatValue(ReGroupText(text, m, 2)) ELSE NaN,
                   dew |-> IF dew # <<>> THEN FloatValue(dew) ELSE NaN]
    ELSE <<>>

EnvField(text) ==
    With(ReSearch(PatTemp, text),
         LAMBDA m : With(find1(PatDew, text), LAMBDA dew : EnvOf(text, m, dew)))

MaskField(key, pat, text) ==
    With(ReSearch(pat, text),
         LAMBDA m : IF m.ok
                    THEN key :> [mask |-> ReGroupText(text, m, 1),
                                 text |-> Strip(ReGroupText(text, m, 2))]
                    ELSE <<>>)

\* group g of the first match of pat, when there is one
StatusGroup(pat, g, text) ==
    With(ReSearch(pat, text), LAMBDA m : IF m.ok THEN {ReGroupText(text, m, g)} ELSE {})

\* the texts given to float() that may not be floats: the [0-9.]+ groups
StatusFloatTexts(text) ==
    StatusGroup(PatPowerOut, 1, text) \cup StatusGroup(PatPilot, 1, text)
        \cup StatusGroup(PatPd, 1, text) \cup StatusGroup(PatPressure, 1, text)
        \cup StatusGroup(PatAirHR, 1, text) \cup StatusGroup(PatAirT, 1, text)
        \cup StatusGroup(PatTemp, 1, text) \cup StatusGroup(PatTemp, 2, text)
        \cup StatusGroup(PatDew, 1, text)

\* group g of the matches of item that findall finds in group 1 of the
\* first match of pat
FoundInts(pat, item, g, text) ==
    With(find1(pat, text),
         LAMBDA v : {ReGroupText(v, m, g) : m \in Range(ReFindAll(item, v))})

\* the texts given to int()
StatusIntTexts(text) ==
    StatusGroup(PatPulseOn, 1, text) \cup StatusGroup(PatPulseOff, 1, text)
        \cup StatusGroup(PatWave, 1, text) \cup FoundInts(PatIoState, PatIoFlag, 2, text)
        \cup StatusGroup(PatPowerOut, 2, text) \cup StatusGroup(PatPowerOut, 3, text)
        \cup StatusGroup(PatPowerParam, 2, text) \cup StatusGroup(PatPowerParam, 3, text)
        \cup StatusGroup(PatEnergy, 1, text) \cup StatusGroup(PatEnergy, 2, text)
        \cup StatusGroup(PatEnergy, 3, text) \cup StatusGroup(PatPilot, 2, text)
        \cup StatusGroup(PatPilot, 3, text) \cup StatusGroup(PatPilot, 5, text)
        \cup StatusGroup(PatPd, 2, text) \cup FoundInts(PatNtc14, PatNtc, 2, text)
        \cup FoundInts(PatNtc58, PatNtc, 2, text) \cup StatusGroup(PatPressure, 2, text)
        \cup StatusGroup(PatAirHR, 2, text) \cup StatusGroup(PatAirT, 2, text)
        \cup StatusGroup(PatTem, 1, text)

\* a float() or an int() call raises ValueError; a text given to int() is
\* part of the input, which is then longer than MaxStrDigits
StatusRaises(text) ==
    \/ \E s \in StatusFloatTexts(text) : FloatRaises(s)
    \/ Len(text) > MaxStrDigits /\ \E s \in StatusIntTexts(text) : IntRaises(s)

StatusDict(text) ==
    StrField("power_on_time", PatPowerOnTime, text)
        @@ StrField("rtc_time", PatRtcTime, text)
        @@ StrField("work_mode", PatWorkMode, text)
        @@ StrField("work_state", PatWorkState, text)
        @@ StrField("laser_state", PatLaserState, text)
        @@ IntField("pulse_on", PatPulseOn, text)
        @@ IntField("pulse_off", PatPulseOff, text)
        @@ IntField("wave_state", PatWave, text)
        @@ IoField(text)
        @@ PowerOutField(text)
        @@ PowerParamField(text)
        @@ PowerDriveField(text)
        @@ FloatListField("drive_volt", PatDriveVolt, 2, text)
        @@ FloatListField("drive_current", PatDriveCurrent, 4, text)
        @@ EnergyField(text)
        @@ PilotField(text)
        @@ PdField(text)
        @@ NtcField(text)
        @@ PressureField(text)
        @@ AirHRField(text)
        @@ AirTField(text)
        @@ EnvField(text)
        @@ MaskField("warning", PatWarning, text)
        @@ MaskField("error", PatError, text)
        @@ MaskField("lock", PatLock, text)
        @@ IntField("tem", PatTem, text)

parse_status_block(text) ==
    With(RemoveCR(text),
         LAMBDA t : IF StatusRaises(t) THEN [raised |-> TRUE, out |-> <<>>]
                    ELSE [raised |-> FALSE, out |-> StatusDict(t)])

(***************************************************************************)
(* Inputs of parse_status_block: at most MaxLines lines joined by line     *)
(* ends; lines that match their field's pattern, lines that start with a   *)
(* field's prefix and do not match it, and lines of no field.              *)
(***************************************************************************)
StatusMatchingLines ==
    { <<"P", "o", "w", "e", "r", "-", "O", "N", " ", "t", "i", "m", "e", ":", " ", "1", "h">>, <<"R", "T", "C", " ", "t", "i", "m", "e", ":", " ", "1", "2", ":", "3", "0">>, <<"W", "o", "r", "k", " ", "M", "o", "d", "e", ":", " ", "A", "U", "T", "O">>, <<"W", "o", "r", "k", " ", "S", "t", "a", "t", "e", ":", " ", "i", "d", "l", "e">>,
      <<"l", "a", "s", "e", "r", " ", "S", "t", "a", "t", "e", ":", " ", "o", "f", "f">>, <<"p", "u", "l", "s", "e", "_", "o", "n", ":", "1", "5", "0">>, <<"p", "u", "l", "s", "e", "_", "o", "f", "f", ":", "1", "5", "0", " ", "m", "s">>, <<"w", "a", "v", "e", " ", "s", "t", "a", "t", "e", ":", "0">>,
      <<"I", "O", " ", "s", "t", "a", "t", "e", ":", " ", "C", "O", "V", "E", "R", "(", "1", ")", " ", "K", "E", "Y", "_", "2", "(", "0", ")">>, <<"P", "o", "w", "e", "r", " ", "O", "u", "t", ":", " ", "1", "2", ".", "5", "%", " ", "(", "3", "4", " ", "w", ")", ",", "D", "A", "C", "(", "2", "5", "5", ")", ",", "s", "t", "a", "t", "e", "(", "O", "N", ")">>,
      <<"P", "o", "w", "e", "r", " ", "P", "a", "r", "a", "m", ":", " ", "p", "o", "w", "e", "r", "(", "1", "0", "0", ".", "0", ")", ",", "p", "w", "m", "_", "f", "r", "e", "(", "1", "0", "0", "0", ")", ",", "p", "w", "m", "_", "d", "u", "t", "y", "(", "1", "0", "0", ")">>,
      <<"P", "o", "w", "e", "r", " ", "d", "r", "i", "v", "e", ":", " ", "0", ".", "0", "0", " ", "V", ",", " ", "1", ".", "5", "0", " ", "A">>, <<"D", "r", "i", "v", "e", " ", "v", "o", "l", "t", "1", "~", "2", ":", " ", "1", ".", "5", "V", ",", " ", "2", "V", ",", " ", "3", "V">>,
      <<"D", "r", "i", "v", "e", " ", "c", "u", "r", "r", "e", "n", "t", "1", "~", "4", ":", " ", "0", ".", "1", "A">>, <<"E", "n", "e", "r", "g", "y", ":", " ", "s", "t", "a", "t", "e", "(", "0", ")", ",", "(", "0", " ", "J", ")", ",", "D", "A", "C", "(", "2", "5", "5", ")">>,
      <<"P", "i", "l", "o", "t", " ", "S", "t", "a", "t", "e", ":", " ", "1", ".", "5", "m", "A", ",", "A", "D", "C", "(", "1", "0", ")", ",", " ", "D", "A", "C", "(", "2", "0", ")", ",", " ", "(", "O", "N", ")", ",", " ", "m", "o", "d", "e", "(", "1", ")">>, <<"P", "D", " ", "V", "o", "l", "t", "a", "g", "e", ":", " ", "3", ".", "3", "m", "V", ",", "A", "D", "C", "(", "7", ")">>,
      <<"N", "T", "C", "1", "~", "4", ":", " ", "2", "2", ".", "4", "C", ",", "A", "D", "C", "(", "2", "1", "6", "2", ")", ",", " ", "0", ".", "0", "C", ",", "A", "D", "C", "(", "4", "0", "9", "1", ")">>, <<"N", "T", "C", "5", "~", "8", ":", " ", "-", "1", "C", ",", "A", "D", "C", "(", "5", ")">>,
      <<"P", "r", "e", "s", "s", "u", "r", "e", ":", " ", "1", ".", "2", "3", ",", "A", "D", "C", "(", "1", "0", "0", ")">>, <<"A", "i", "r", "H", "R", ":", " ", "4", "5", ".", "0", "%", ",", "A", "D", "C", "(", "3", ")">>, <<"A", "i", "r", "T", ":", " ", "2", "2", ".", "5", "C", ",", "A", "D", "C", "(", "9", ")">>,
      <<"T", "e", "m", "p", ":", " ", "2", "2", ".", "5", "2", " ", "C", " ", " ", "P", "r", "e", "s", ":", " ", "3", "8", "4", ".", "0", "0", " ", "K", "P", "a">>, <<"D", "e", "w", ":", " ", "0", ".", "0", "0">>, <<"W", "A", "R", "N", "I", "N", "G", "(", "0", "x", "0", "0", "0", "1", ")", ":", " ", "l", "o", "w", " ", " ">>,
      <<"E", "R", "R", "O", "R", "(", "0", "x", "0", ")", ":", " ", "N", "O", "N", "E">>, <<"L", "O", "C", "K", "(", "0", "x", "A", ")", ":">>, <<"T", "E", "M", ":", "1", "2">>,
      <<"P", "i", "l", "o", "t", " ", "S", "t", "a", "t", "e", ":", " ", "1", ".", "5", "m", "A", ",", "A", "D", "C", "(", "1", "0", ")", ",", " ", "D", "A", "C", "(", "2", "0", ")", ",", " ", "(", "µ", "É", ")", ",", " ", "m", "o", "d", "e", "(", "1", ")", "">>,
      <<"W", "o", "r", "k", " ", "S", "t", "a", "t", "e", ":", "", "", "i", "d", "l", "e", "">>,
      <<"T", "E", "M", ":", "U+0663", "U+FF12">>,
      <<"P", "o", "w", "e", "r", " ", "O", "u", "t", ":", " ", "1", "%", " ", "(", "1", " ", "w", ")", ",", "D", "A", "C", "(", "U+0661", ")", ",", "s", "t", "a", "t", "e", "(", "U+0101", "U+4E2D", ")">>,
      <<"D", "r", "i", "v", "e", " ", "v", "o", "l", "t", "1", "~", "2", ":", " ", "U+0661", ".", "U+0662", "V">>,
      <<"N", "T", "C", "1", "~", "4", ":", " ", "U+0661", "C", ",", "A", "D", "C", "(", "1", "U+0662", ")">>,
      <<"D", "e", "w", ":", " ", "9", "9", "9", "9", "9", "9", "9", "9", "9", "9", "9", "9", "9", "9", "9", "9", "9", "9", "9", "9">>,
      <<"P", "r", "e", "s", "s", "u", "r", "e", ":", " ", "0", ".", "9", "9", "9", "9", "9", "9", "9", "9", "9", "9", "9", "9", "9", "9", "9", "9", "9", "9", "9", "9", ",", "A", "D", "C", "(", "9", "0", "0", "7", "1", "9", "9", "2", "5", "4", "7", "4", "0", "9", "9", "3", ")">> }

StatusOtherLines ==
    { <<"W", "o", "r", "k", " ", "M", "o", "d", "e", ":">>, <<"W", "o", "r", "k", " ", "M", "o", "d", "e", ":", " ", " ">>, <<"P", "o", "w", "e", "r", " ", "O", "u", "t", ":", " ", "1", "2", ".", "5", "%", " ", "(", "3", "4", " ", "w", ")", ",", " ", "D", "A", "C", "(", "2", "5", "5", ")", ",", " ", "s", "t", "a", "t", "e", "(", "O", "N", ")">>,
      <<"p", "u", "l", "s", "e", "_", "o", "n", ":", " ", "x">>, <<"T", "E", "M", ":">>, <<"T", "E", "M", ":", "x">>, <<"D", "e", "w", ":">>, <<"D", "e", "w", ":", " ", "x">>, <<"P", "r", "e", "s", "s", "u", "r", "e", ":", " ", ",", "A", "D", "C", "(", "1", ")">>,
      <<"E", "n", "e", "r", "g", "y", ":", " ", "s", "t", "a", "t", "e", "(", "0", ")">>, <<"I", "O", " ", "s", "t", "a", "t", "e", ":">>, <<"N", "T", "C", "1", "~", "4", ":", " ", "n", "o", "n", "e">>, <<"W", "A", "R", "N", "I", "N", "G", "(", "0", "x", "1", ")", ":">>,
      <<"P", "r", "e", "s", "s", "u", "r", "e", ":", " ", "1", ".", "2", ".", "3", ",", "A", "D", "C", "(", "5", ")">>, <<"D", "e", "w", ":", " ", ".">>, <<"P", "D", " ", "V", "o", "l", "t", "a", "g", "e", ":", " ", ".", ".", "m", "V", ",", "A", "D", "C", "(", "1", ")">>,
      <<"P", "o", "w", "e", "r", " ", "O", "u", "t", ":", " ", "1", "%", " ", "(", "U+0661", " ", "w", ")", ",", "D", "A", "C", "(", "1", ")", ",", "s", "t", "a", "t", "e", "(", "O", "N", ")">>,
      <<"m", "s", "h", " ", ">">>, <<>>, <<"5">>, <<"h", "e", "l", "l", "o">> }

StatusLines == StatusMatchingLines \cup StatusOtherLines

RECURSIVE StatusTextsOf(_)
StatusTextsOf(n) ==
    IF n = 1 THEN StatusLines
    ELSE LET shorter == StatusTextsOf(n - 1) IN
         shorter \cup {t \o e \o l : t \in shorter, e \in LineEnds, l \in StatusLines}

\* a text with a number longer than int() takes
StatusLongTexts == { <<"T", "E", "M", ":">> \o LongNumber }

StatusTexts == StatusTextsOf(MaxLines) \cup StatusLongTexts

NoStatus == [raised |-> FALSE, out |-> <<>>]

StatusInit == ps_pc = "start" /\ ps_text \in StatusTexts /\ ps_out = NoStatus

StatusCall ==
    /\ ps_pc = "start"
    /\ ps_out' = parse_status_block(ps_text)
    /\ ps_pc' = "done"
    /\ UNCHANGED <<ps_text, getallVars, processVars, policyVars, mshVars, auditVars, wsVars, hubVars>>

StatusIdle == ps_pc = "done" /\ ps_text = <<>> /\ ps_out = NoStatus

(***************************************************************************)
(* parse_process.py: parse_process_block applied to one text. A line is    *)
(* handled by the first branch whose prefix it starts with; each branch    *)
(* goes through the comma-separated parts of the line and stores the       *)
(* values of the keys it knows. Values are Python numbers as in            *)
(* parse_getall_block. A number text is one int() or float() takes: a      *)
(* sign, digits with single underscores between them, and for float() a    *)
(* dot and an exponent.                                                    *)
(***************************************************************************)
\* str.split(ch)
RECURSIVE SplitAt(_, _)
SplitAt(s, ch) ==
    IF ~Contains(s, ch) THEN <<s>>
    ELSE <<SubSeq(s, 1, IndexOf(s, ch) - 1)>>
             \o SplitAt(SubSeq(s, IndexOf(s, ch) + 1, Len(s)), ch)

\* k, v = part.split(":", 1); k = k.strip().lower()
PartKey(part) == Lower(Strip(SubSeq(part, 1, IndexOf(part, ":") - 1)))
PartValue(part) == SubSeq(part, IndexOf(part, ":") + 1, Len(part))

\* digits, with single underscores between them
DigitPart(s) ==
    /\ s # <<>>
    /\ \A i \in DOMAIN s : s[i] \in Digits \cup {"_"}
    /\ s[1] # "_" /\ s[Len(s)] # "_"
    /\ \A i \in 1 .. (Len(s) - 1) : ~(s[i] = "_" /\ s[i + 1] = "_")

\* float(v) does not raise ValueError, for v with a dot: digits before or
\* after the dot of the mantissa and digits in the exponent, if any
FloatText(v) ==
    LET body == Unsigned(v)
        mant == Mantissa(body)
        whole == IF Contains(mant, ".") THEN SubSeq(mant, 1, IndexOf(mant, ".") - 1) ELSE mant
        frac == IF Contains(mant, ".") THEN SubSeq(mant, IndexOf(mant, ".") + 1, Len(mant))
                ELSE <<>>
    IN  /\ Contains(mant, ".")
        /\ whole # <<>> \/ frac # <<>>
        /\ whole = <<>> \/ DigitPart(whole)
        /\ frac = <<>> \/ DigitPart(frac)
        /\ ExpMark(body) <= Len(body) => DigitPart(Unsigned(Exponent(body)))

\* int(v) does not raise ValueError, for v without a dot: a sign and
\* digits, no more than MaxStrDigits of them
IntText(v) == DigitPart(Unsigned(v)) /\ Len(DigitsOf(v)) <= MaxStrDigits

\* int(v), or float(v) when v has a dot, does not raise ValueError
NumText(v) == IF Contains(v, ".") THEN FloatText(v) ELSE IntText(v)

\* int(v), or float(v) collapsed to an int when it is a whole number
NumOf(v) ==
    IF Contains(v, ".") THEN With(FloatValue(v), LAMBDA f : Collapsed(f)) ELSE IntValue(v)

NoNum == [type |-> "none"]

\* _parse_num
parse_num(value) ==
    With(Strip(value), LAMBDA v : IF v = <<>> \/ ~NumText(v) THEN NoNum ELSE NumOf(v))

\* set_int: a value that is not a whole number is not stored
set_int(out, field, value) ==
    With(parse_num(value), LAMBDA num : IF num.type = "int" THEN (field :> num) @@ out ELSE out)

\* set_num
set_num(out, field, value) ==
    With(parse_num(value), LAMBDA num : IF num.type = "none" THEN out ELSE (field :> num) @@ out)

IntTo(field) == [field |-> field, int |-> TRUE]
NumTo(field) == [field |-> field, int |-> FALSE]

\* the keys of each branch and the fields they set
PowerKeys ==
    (<<"p", "o", "w", "e", "r">> :> NumTo("power")) @@ (<<"f", "r", "e">> :> IntTo("pwm_fre"))
        @@ (<<"d", "u", "t", "y">> :> IntTo("pwm_duty")) @@ (<<"m", "o", "d", "e">> :> IntTo("mode"))
HeadKeys == (<<"f", "r", "e">> :> IntTo("head_fre")) @@ (<<"w", "i", "d", "t", "h">> :> IntTo("head_width"))
PulseKeys == (<<"o", "n">> :> IntTo("pulse_on")) @@ (<<"o", "f", "f">> :> IntTo("pulse_off"))
GasKeys == (<<"e", "a", "r", "l", "y">> :> IntTo("gas_early")) @@ (<<"d", "e", "l", "a", "y">> :> IntTo("gas_delay"))
PowerTickKeys ==
    (<<"r", "i", "s", "e">> :> IntTo("pow_rise")) @@ (<<"f", "a", "l", "l">> :> IntTo("pow_fall"))
        @@ (<<"e", "a", "r", "l", "y">> :> IntTo("pow_early")) @@ (<<"d", "e", "l", "a", "y">> :> IntTo("pow_delay"))
PowerOnKeys == (<<"p", "o", "w", "e", "r", " ", "o", "n">> :> IntTo("power_on")) @@ (<<"p", "o", "w", "e", "r", " ", "o", "f", "f">> :> IntTo("power_off"))
FeederCycleKeys ==
    (<<"f", "e", "e", "d", "e", "r", "_", "c", "y", "c", "l", "e">> :> IntTo("feeder_cycle")) @@ (<<"s", "m", "o", "o", "t", "h", "n", "e", "s", "s">> :> IntTo("feeder_smoothness"))
        @@ (<<"o", "u", "t", "_", "d", "e", "l", "a", "y">> :> IntTo("feeder_out_delay")) @@ (<<"i", "n", "_", "d", "e", "l", "a", "y">> :> IntTo("feeder_in_delay"))
        @@ (<<"o", "u", "t", "_", "l", "e", "n">> :> IntTo("feeder_out_len")) @@ (<<"i", "n", "_", "l", "e", "n">> :> IntTo("feeder_in_len"))

\* for part in parts: the parts with a colon and a key of the branch
RECURSIVE SetParts(_, _, _)
SetParts(parts, keys, out) ==
    IF parts = <<>> THEN out
    ELSE IF ~Contains(Head(parts), ":") \/ PartKey(Head(parts)) \notin DOMAIN keys
    THEN SetParts(Tail(parts), keys, out)
    ELSE SetParts(Tail(parts), keys,
                  IF keys[PartKey(Head(parts))].int
                  THEN set_int(out, keys[PartKey(Head(parts))].field, PartValue(Head(parts)))
                  ELSE set_num(out, keys[PartKey(Head(parts))].field, PartValue(Head(parts))))

\* rest = s[len(prefix):].strip(); if rest.startswith(":"): rest = rest[1:].strip()
TickRest(s, prefix) ==
    With(Strip(SubSeq(s, Len(prefix) + 1, Len(s))),
         LAMBDA rest : IF rest # <<>> /\ rest[1] = ":" THEN Strip(Tail(rest)) ELSE rest)

\* parts = [p.strip() for p in rest.split(",") if p.strip()]
HeadParts(s) ==
    With(SplitAt(PartValue(s), ","),
         LAMBDA ps : SelectSeq([i \in DOMAIN ps |-> Strip(ps[i])], LAMBDA p : p # <<>>))

HeadMode(s, out) ==
    With(HeadParts(s),
         LAMBDA parts : IF parts = <<>> THEN out
                        ELSE SetParts(Tail(parts), HeadKeys, set_int(out, "head_mode", parts[1])))

\* one part with a key of a feeder_mode line that is a len and arms no slot
FeederStep_KeepSlot(k, v, st) ==
    CASE k = <<"f", "e", "e", "d", "e", "r", "_", "m", "o", "d", "e">> -> [st EXCEPT !.out = set_int(st.out, "feeder_mode", v)]
      [] k = <<"o", "u", "t", "_", "s", "p", "e", "e", "d">> ->
            [expect_out_len |-> TRUE, expect_in_len |-> FALSE,
             out |-> set_int(st.out, "feeder_out_speed", v)]
      [] k = <<"i", "n", "_", "s", "p", "e", "e", "d">> ->
            [expect_out_len |-> FALSE, expect_in_len |-> TRUE,
             out |-> set_int(st.out, "feeder_in_speed", v)]
      [] k = <<"l", "e", "n">> /\ st.expect_out_len ->
            [st EXCEPT !.out = set_int(st.out, "feeder_out_len", v)]
      [] k = <<"l", "e", "n">> /\ ~st.expect_out_len /\ st.expect_in_len ->
            [st EXCEPT !.out = set_int(st.out, "feeder_in_len", v)]
      [] OTHER -> st

\* one part with a colon of a feeder_mode line: key k, value v, and the
\* state st of the scan (the two flags and the dict)
FeederStep(k, v, st) ==
    CASE k = <<"f", "e", "e", "d", "e", "r", "_", "m", "o", "d", "e">> -> [st EXCEPT !.out = set_int(st.out, "feeder_mode", v)]
      [] k = <<"o", "u", "t", "_", "s", "p", "e", "e", "d">> ->
            [expect_out_len |-> TRUE, expect_in_len |-> FALSE,
             out |-> set_int(st.out, "feeder_out_speed", v)]
      [] k = <<"i", "n", "_", "s", "p", "e", "e", "d">> ->
            [expect_out_len |-> FALSE, expect_in_len |-> TRUE,
             out |-> set_int(st.out, "feeder_in_speed", v)]
      [] k = <<"l", "e", "n">> /\ st.expect_out_len ->
            [st EXCEPT !.out = set_int(st.out, "feeder_out_len", v), !.expect_out_len = FALSE]
      [] k = <<"l", "e", "n">> /\ ~st.expect_out_len /\ st.expect_in_len ->
            [st EXCEPT !.out = set_int(st.out, "feeder_in_len", v), !.expect_in_len = FALSE]
      [] OTHER -> st

\* the loop over the parts of a feeder_mode line
RECURSIVE FeederScan(_, _)
FeederScan(parts, st) ==
    IF parts = <<>> THEN st.out
    ELSE IF ~Contains(Head(parts), ":") THEN FeederScan(Tail(parts), st)
    ELSE FeederScan(Tail(parts), FeederStep(PartKey(Head(parts)), PartValue(Head(parts)), st))

FeederMode(s, out) ==
    FeederScan(SplitAt(s, ","), [expect_out_len |-> FALSE, expect_in_len |-> FALSE, out |-> out])

\* _split_kv
split_kv(line) ==
    [key |-> Strip(SubSeq(line, 1, IndexOf(line, ":") - 1)), value |-> Strip(PartValue(line))]

\* the body of the loop over the lines: the line s and the state st, the
\* dict and the extras
ProcessLine(s, st) ==
    IF StartsWith(Lower(s), <<"p", "o", "w", "e", "r", ":">>) /\ Contains(s, ",")
    THEN [st EXCEPT !.out = SetParts(SplitAt(s, ","), PowerKeys, st.out)]
    ELSE IF StartsWith(Lower(s), <<"h", "e", "a", "d", " ", "m", "o", "d", "e", ":">>)
    THEN [st EXCEPT !.out = HeadMode(s, st.out)]
    ELSE IF StartsWith(Lower(s), <<"p", "u", "l", "s", "e", " ", "t", "i", "c", "k">>)
    THEN [st EXCEPT !.out = SetParts(SplitAt(TickRest(s, <<"p", "u", "l", "s", "e", " ", "t", "i", "c", "k">>), ","), PulseKeys, st.out)]
    ELSE IF StartsWith(Lower(s), <<"g", "a", "s", " ", "t", "i", "c", "k">>)
    THEN [st EXCEPT !.out = SetParts(SplitAt(TickRest(s, <<"g", "a", "s", " ", "t", "i", "c", "k">>), ","), GasKeys, st.out)]
    ELSE IF StartsWith(Lower(s), <<"p", "o", "w", "e", "r", " ", "t", "i", "c", "k">>)
    THEN [st EXCEPT !.out = SetParts(SplitAt(TickRest(s, <<"p", "o", "w", "e", "r", " ", "t", "i", "c", "k">>), ","), PowerTickKeys, st.out)]
    ELSE IF StartsWith(Lower(s), <<"p", "o", "w", "e", "r", " ", "o", "n">>)
    THEN [st EXCEPT !.out = SetParts(SplitAt(s, ","), PowerOnKeys, st.out)]
    ELSE IF StartsWith(Lower(s), <<"p", "r", "o", "c", "e", "s", "s", " ", "i", "n", "d", "e", "x", ":">>)
    THEN [st EXCEPT !.out = set_int(st.out, "index", PartValue(s))]
    ELSE IF StartsWith(Lower(s), <<"f", "e", "e", "d", "e", "r", "_", "m", "o", "d", "e", ":">>)
    THEN [st EXCEPT !.out = FeederMode(s, st.out)]
    ELSE IF StartsWith(Lower(s), <<"f", "e", "e", "d", "e", "r", "_", "c", "y", "c", "l", "e", ":">>) \/ StartsWith(Lower(s), <<"s", "m", "o", "o", "t", "h", "n", "e", "s", "s", ":">>)
    THEN [st EXCEPT !.out = SetParts(SplitAt(s, ","), FeederCycleKeys, st.out)]
    ELSE IF Contains(s, ":")
    THEN [st EXCEPT !.extras = Append(st.extras, split_kv(s))]
    ELSE st

\* lines = [l.strip() for l in text.splitlines() if l.strip() and l.strip() != "msh >"]
ProcessLines(text) ==
    With(splitlines(text),
         LAMBDA ls : SelectSeq([i \in DOMAIN ls |-> Strip(ls[i])],
                               LAMBDA l : l # <<>> /\ l # PROMPT_TEXT))

RECURSIVE ProcessLoop(_, _)
ProcessLoop(lines, st) ==
    IF lines = <<>> THEN st ELSE ProcessLoop(Tail(lines), ProcessLine(Head(lines), st))

parse_process_block(text) ==
    With(ProcessLoop(ProcessLines(RemoveCR(text)), [out |-> <<>>, extras |-> <<>>]),
         LAMBDA st : IF st.extras # <<>> THEN ("extras" :> st.extras) @@ st.out ELSE st.out)

(***************************************************************************)
(* Inputs of parse_process_block: a feeder_mode line of at most MaxParts   *)
(* further parts, alone or followed by another line, and the lines of the  *)
(* other branches.                                                         *)
(***************************************************************************)
FeederParts ==
    { <<"o", "u", "t", "_", "s", "p", "e", "e", "d", ":", "1", "0">>, <<"i", "n", "_", "s", "p", "e", "e", "d", ":", "x">>, <<" ", "I", "n", "_", "S", "p", "e", "e", "d", " ", ":", " ", "2", "0">>, <<"l", "e", "n", ":", "1", "3">>, <<"l", "e", "n", ":", "1", ".", "5">>,
      <<" ", "L", "E", "N", ":", " ", "7", " ">>, <<"l", "e", "n">>, <<"l", "e", "n", ":">>,
      <<"l", "e", "n", ":", "0", ".", "9", "9", "9", "9", "9", "9", "9", "9", "9", "9", "9", "9", "9", "9", "9", "9", "9", "9", "9", "9">> }

RECURSIVE FeederLinesOf(_)
FeederLinesOf(n) ==
    IF n = 0 THEN {<<"f", "e", "e", "d", "e", "r", "_", "m", "o", "d", "e", ":", "0">>}
    ELSE LET shorter == FeederLinesOf(n - 1) IN
         shorter \cup {l \o <<",">> \o p : l \in shorter, p \in FeederParts}

FeederLines == FeederLinesOf(MaxParts)

ProcessOtherLines ==
    { <<"p", "o", "w", "e", "r", ":", "5", "5", ".", "5", ",", "f", "r", "e", ":", "1", "0", "0", "0", ",", "d", "u", "t", "y", ":", "1", "0", "0", ",", "m", "o", "d", "e", ":", "1">>, <<"p", "o", "w", "e", "r", ":", " ", "7", ".", ",", " ", "F", "R", "E", ":", "+", "2", "0", ",", "d", "u", "t", "y", ":", "1", ".", "5", ",", "x">>, <<"p", "o", "w", "e", "r", ":", "5">>,
      <<"h", "e", "a", "d", " ", "m", "o", "d", "e", ":", "1", ",", "f", "r", "e", ":", "1", "0", ",", " ", "w", "i", "d", "t", "h", ":", "2", "0">>, <<"h", "e", "a", "d", " ", "m", "o", "d", "e", ":", " ", ",", "x", ",", "f", "r", "e", ":", "3">>, <<"P", "u", "l", "s", "e", " ", "T", "i", "c", "k", ":", " ", "o", "n", ":", "1", "0", ",", "o", "f", "f", ":", "2", "0">>,
      <<"g", "a", "s", " ", "t", "i", "c", "k", " ", "e", "a", "r", "l", "y", ":", "1", "0", "0", ",", "d", "e", "l", "a", "y", ":", "-", "5">>, <<"p", "o", "w", "e", "r", " ", "t", "i", "c", "k", ":", "r", "i", "s", "e", ":", "1", ",", "f", "a", "l", "l", ":", "2", ",", "e", "a", "r", "l", "y", ":", "3", ",", "d", "e", "l", "a", "y", ":", "4">>,
      <<"p", "o", "w", "e", "r", " ", "o", "n", ":", "0", ",", "p", "o", "w", "e", "r", " ", "o", "f", "f", ":", "9">>, <<"p", "r", "o", "c", "e", "s", "s", " ", "i", "n", "d", "e", "x", ":", " ", "3">>, <<"p", "r", "o", "c", "e", "s", "s", " ", "i", "n", "d", "e", "x", ":", ".">>,
      <<"f", "e", "e", "d", "e", "r", "_", "c", "y", "c", "l", "e", ":", "4", "0", "0", ",", " ", "s", "m", "o", "o", "t", "h", "n", "e", "s", "s", ":", "4", "0", ",", "o", "u", "t", "_", "d", "e", "l", "a", "y", ":", "0", ",", "i", "n", "_", "d", "e", "l", "a", "y", ":", "4", "0", "0">>,
      <<"s", "m", "o", "o", "t", "h", "n", "e", "s", "s", ":", "4", ",", "o", "u", "t", "_", "l", "e", "n", ":", "9", "9", ",", "i", "n", "_", "l", "e", "n", ":", "9", "8">>, <<"f", "e", "e", "d", "e", "r", "_", "m", "o", "d", "e", ":", "2", ",", "i", "n", "_", "s", "p", "e", "e", "d", ":", "1", ",", "l", "e", "n", ":", "5">>,
      <<"v", "e", "r", "s", "i", "o", "n", ":", " ", "1", ".", "2", ":", "3">>, <<"o", "k">>, <<"m", "s", "h", " ", ">">>, <<>>,
      <<"p", "o", "w", "e", "r", ":", "1", ".", "5", "e", "1", ",", "f", "r", "e", ":", "1", "_", "0", ",", "d", "u", "t", "y", ":", "2", ".", "e", "-", "1", ",", "m", "o", "d", "e", ":", ".", "5", "E", "1">>,
      <<"p", "o", "w", "e", "r", ":", "1", "_", "0", ".", "2", "_", "5", "e", "-", "1", ",", "f", "r", "e", ":", "1", "_", "_", "0", ",", "d", "u", "t", "y", ":", "_", "1", ",", "m", "o", "d", "e", ":", "1", ".", "e">>,
      <<"P", "O", "W", "E", "R", " ", ":", "-", "1", "_", "5", ".", "0", "E", "+", "1", ",", "F", "r", "e", "", ":", "", "7", "", ",", "d", "u", "t", "y", ":", "1", "e", "1", ",", "m", "o", "d", "e", ":", "1", ".", "5", "_", "e", "1">>,
      <<"p", "r", "o", "c", "e", "s", "s", " ", "i", "n", "d", "e", "x", ":", " ", "3", "", "p", "o", "w", "e", "r", " ", "o", "n", ":", "1", " ", ",", "É", ":", "2", "", "g", "a", "s", " ", "t", "i", "c", "k", " ", "e", "a", "r", "l", "y", ":", ".", ",", "d", "e", "l", "a", "y", ":", "0", ".", "0", "e", "5">>,
      <<"p", "o", "w", "e", "r", ":", "U+0661", ".", "U+0665", ",", "f", "r", "e", ":", "U+FF11", "U+FF12", ",", "d", "u", "t", "y", ":", "1", "U+0663", "_", "0", ",", "m", "o", "d", "e", ":", "U+0661", ".", "U+0660">>,
      <<"P", "U", "L", "S", "E", " ", "T", "I", "C", "U+212A", ":", " ", "O", "N", ":", "-", "U+0663", ",", "o", "f", "f", ":", "U+0130">>,
      <<"p", "o", "w", "e", "r", ":", "1", ".", "5", "e", "4", "0", "0", ",", "f", "r", "e", ":", "9", "0", "0", "7", "1", "9", "9", "2", "5", "4", "7", "4", "0", "9", "9", "3", ".", "0", ",", "d", "u", "t", "y", ":", "0", ".", "9", "9", "9", "9", "9", "9", "9", "9", "9", "9", "9", "9", "9", "9", "9", "9", "9", "9", "9", "9", ",", "m", "o", "d", "e", ":", "1", ".", "5", "e", "-", "4", "0", "0">> }

\* a feeder_mode line with every kind of part, alone and before another line
FeederSample == <<"f", "e", "e", "d", "e", "r", "_", "m", "o", "d", "e", ":", "0", ",", "o", "u", "t", "_", "s", "p", "e", "e", "d", ":", "1", "0", ",", "l", "e", "n", ":", "1", "3", ",", "i", "n", "_", "s", "p", "e", "e", "d", ":", "2", "0", ",", "l", "e", "n", ":", "1", "4", ",", "l", "e", "n", ":", "1", "5">>

\* lines with a number longer than int() takes
ProcessLongTexts ==
    { <<"f", "e", "e", "d", "e", "r", "_", "m", "o", "d", "e", ":", "0", ",", "o", "u", "t", "_", "s", "p", "e", "e", "d", ":", "1", "0", ",", "l", "e", "n", ":">> \o LongNumber,
      <<"f", "e", "e", "d", "e", "r", "_", "m", "o", "d", "e", ":", "0", ",", "i", "n", "_", "s", "p", "e", "e", "d", ":", "2", "0", ",", "l", "e", "n", ":">> \o LongNumber \o <<",", "l", "e", "n", ":", "1", "3">>,
      <<"p", "r", "o", "c", "e", "s", "s", " ", "i", "n", "d", "e", "x", ":">> \o LongNumber }

ProcessTexts ==
    FeederLines \cup ProcessOtherLines \cup {FeederSample} \cup ProcessLongTexts
        \cup {FeederSample \o e \o l : e \in LineEnds, l \in ProcessOtherLines}
        \cup {l \o e \o FeederSample : e \in LineEnds, l \in ProcessOtherLines}

ProcessInit == pp_pc = "start" /\ pp_text \in ProcessTexts /\ pp_out = <<>>

ProcessCall ==
    /\ pp_pc = "start"
    /\ pp_out' = parse_process_block(pp_text)
    /\ pp_pc' = "done"
    /\ UNCHANGED <<pp_text, getallVars, statusVars, policyVars, mshVars, auditVars, wsVars,
                   hubVars>>

ProcessIdle == pp_pc = "done" /\ pp_text = <<>> /\ pp_out = <<>>

ParseIdle == GetAllIdle /\ StatusIdle /\ ProcessIdle

PureIdle == PolicyIdle /\ ParseIdle

(***************************************************************************)
(* msh.py: the serial session and the device behind it.                    *)
(*                                                                         *)
(* Received text is a sequence of lines. A line is a prompt line (one that *)
(* PROMPT_RE matches) or an output line; each carries the index in wlog of *)
(* the write the device answers with it, and lit: PROMPT_LINE ("msh >") is *)
(* part of the line. PROMPT_RE also matches a prompt written without the   *)
(* one space ("msh>"), which PROMPT_LINE is not part of; a device writes   *)
(* its prompt in one form. The device answers every line it receives, in   *)
(* order: an empty line with a prompt, a command line with its output      *)
(* followed by a prompt; before the first prompt it may send a line of its *)
(* own (a boot banner, as tests/test_msh.py has it). A read takes what has *)
(* arrived of the answers, at least one line; while nothing has arrived    *)
(* the read waits, until its time is up.                                   *)
(***************************************************************************)
\* the tasks _amain creates: poll_task, process_task, getall_task. poll_task
\* runs poll_status_loop; the coroutines of the other two are defined nowhere
\* in the source, and the two tasks take no step but that of their
\* cancellation
Poll == 0
ProcessPoll == -2
GetallPoll == -3
LoopTasks == {Poll, ProcessPoll, GetallPoll}
Clients == 1 .. NumClients
Tasks == LoopTasks \cup Clients
\* the tasks that call exec: poll_status_loop and the clients
Callers == {Poll} \cup Clients
NoTask == -1

Prompt(w) == [k |-> "prompt", w |-> w, lit |-> TRUE]
OddPrompt(w) == [k |-> "prompt", w |-> w, lit |-> FALSE]
Out(w) == [k |-> "out", w |-> w, lit |-> FALSE]

\* PROMPT_RE.search(buf)
HasPrompt(buf) == \E i \in DOMAIN buf : buf[i].k = "prompt"

\* data.split(PROMPT_LINE)[-1]: what follows the last line PROMPT_LINE is
\* part of, and the whole text when it is part of no line
AfterLastPrompt(buf) ==
    LET lits == {i \in DOMAIN buf : buf[i].lit}
    IN  IF lits = {} THEN buf
        ELSE SubSeq(buf, (CHOOSE i \in lits : \A j \in lits : j <= i) + 1, Len(buf))

NL == <<"\n">>
STATUS == <<"s","t","a","t","u","s">>
GETALL == <<"g","e","t","a","l","l">>

\* the prompts PROMPT_RE matches: PROMPT_LINE, and one it is not part of
ODD_PROMPT == <<"m", "s", "h", ">">>
PromptForms == {PROMPT_TEXT, ODD_PROMPT}

\* the prompt line the device sends after its answer to the w-th write
DevPrompt(w) == IF dev_prompt = PROMPT_TEXT THEN Prompt(w) ELSE OddPrompt(w)

\* what the device may send for the w-th write
Response(line, w) ==
    {body \o <<DevPrompt(w)>> :
        body \in (IF line # NL THEN {<<Out(w)>>}
                  ELSE IF w = 1 THEN {<<>>, <<Out(w)>>} ELSE {<<>>})}

\* the io log after exec e read or wrote
IoAfter(e) == IF iolog # <<>> /\ iolog[Len(iolog)] = e THEN iolog ELSE Append(iolog, e)

\* self.writer.write(line); await self.writer.drain()
WriteLine(e, line) ==
    /\ wlog' = Append(wlog, [e |-> e, line |-> line])
    /\ \E answer \in Response(line, Len(wlog) + 1) : pipe' = pipe \o answer
    /\ iolog' = IoAfter(e)

ReadStates == {"boot_r", "resync_r", "cmd_r"}
InSection(t) == epc[t] \in ReadStates

\* a new session, followed for n exec calls, on a device with either prompt
MshStart(n) ==
    /\ dev_prompt \in PromptForms
    /\ max_execs = n
    /\ rx_buf = <<>>
    /\ msh_lock = NoTask
    /\ msh_waiters = <<>>
    /\ bootstrapped = FALSE
    /\ epc = [t \in Tasks |-> "idle"]
    /\ ecmd = [t \in Tasks |-> <<>>]
    /\ eid = [t \in Tasks |-> 0]
    /\ ecw = [t \in Tasks |-> 0]
    /\ eret = [t \in Tasks |-> <<>>]
    /\ nexec = 0
    /\ wlog = <<>>
    /\ iolog = <<>>
    /\ pipe = <<>>

MshInit == MshStart(MaxExecs)

\* the session of a specification in which no step uses it
MshIdle == MshInit /\ dev_prompt = PROMPT_TEXT

\* asyncio.Lock.acquire() always taking the lock at once
LockFree_Always == TRUE

\* asyncio.Lock.acquire() takes the lock at once iff it is neither held nor
\* waited for
LockFree == msh_lock = NoTask /\ msh_waiters = <<>>

\* leaving "async with self._lock" without giving the lock back
Unlock_Keep(t) == UNCHANGED <<msh_lock, msh_waiters>>

\* leaving "async with self._lock": the lock goes to the oldest waiter
Unlock(t) ==
    IF msh_waiters = <<>>
    THEN msh_lock' = NoTask /\ UNCHANGED msh_waiters
    ELSE msh_lock' = Head(msh_waiters) /\ msh_waiters' = Tail(msh_waiters)

\* bootstrap() up to its read, or (bootstrapped) the resync write
EnterSection(t, e) ==
    /\ WriteLine(e, NL)
    /\ epc' = [epc EXCEPT ![t] = IF bootstrapped THEN "resync_r" ELSE "boot_r"]

\* exec(cmd) is called by task t: the call up to its first suspension
ExecCall(t, cmd) ==
    /\ epc[t] = "idle"
    /\ nexec < max_execs
    /\ nexec' = nexec + 1
    /\ eid' = [eid EXCEPT ![t] = nexec + 1]
    /\ ecmd' = [ecmd EXCEPT ![t] = cmd]
    /\ ecw' = [ecw EXCEPT ![t] = 0]
    /\ eret' = [eret EXCEPT ![t] = <<>>]
    /\ IF LockFree
       THEN /\ msh_lock' = t
            /\ EnterSection(t, nexec + 1)
            /\ UNCHANGED msh_waiters
       ELSE /\ msh_waiters' = Append(msh_waiters, t)
            /\ epc' = [epc EXCEPT ![t] = "wait"]
            /\ UNCHANGED <<msh_lock, wlog, pipe, iolog>>
    /\ UNCHANGED <<rx_buf, bootstrapped>>

\* a waiting task was given the lock and runs on
ExecAcquired(t) ==
    /\ UNCHANGED nonMshVars
    /\ epc[t] = "wait"
    /\ msh_lock = t
    /\ EnterSection(t, eid[t])
    /\ UNCHANGED <<rx_buf, msh_lock, msh_waiters, bootstrapped, ecmd, eid, ecw,
                   eret, nexec>>

\* chunk = await reader.read(512); self._rx_buf += chunk, for a chunk of
\* one of the sizes (in lines)
ExecReadOf(t, sizes) ==
    /\ UNCHANGED nonMshVars
    /\ InSection(t)
    /\ ~HasPrompt(rx_buf)
    /\ pipe # <<>>
    /\ \E n \in sizes :
          /\ rx_buf' = rx_buf \o SubSeq(pipe, 1, n)
          /\ pipe' = SubSeq(pipe, n + 1, Len(pipe))
    /\ iolog' = IoAfter(eid[t])
    /\ UNCHANGED <<msh_lock, msh_waiters, bootstrapped, epc, ecmd, eid, ecw, eret,
                   nexec, wlog>>

\* a read takes any part of what the device has sent, at least one line
ExecRead(t) == ExecReadOf(t, 1 .. Len(pipe))

\* a read at which all the device has sent has arrived
ExecReadAll(t) == ExecReadOf(t, {Len(pipe)})

\* bootstrap that does not remember it has run
ExecBootDone_Forget(t) ==
    /\ UNCHANGED nonMshVars
    /\ epc[t] = "boot_r"
    /\ HasPrompt(rx_buf)
    /\ rx_buf' = AfterLastPrompt(rx_buf)
    /\ WriteLine(eid[t], NL)
    /\ epc' = [epc EXCEPT ![t] = "resync_r"]
    /\ UNCHANGED <<msh_lock, msh_waiters, bootstrapped, ecmd, eid, ecw, eret, nexec>>

\* bootstrap's read saw a prompt: align the buffer, then the resync write
ExecBootDone(t) ==
    /\ UNCHANGED nonMshVars
    /\ epc[t] = "boot_r"
    /\ HasPrompt(rx_buf)
    /\ rx_buf' = AfterLastPrompt(rx_buf)
    /\ bootstrapped' = TRUE
    /\ WriteLine(eid[t], NL)
    /\ epc' = [epc EXCEPT ![t] = "resync_r"]
    /\ UNCHANGED <<msh_lock, msh_waiters, ecmd, eid, ecw, eret, nexec>>

\* exec writing the command as it was given
ExecResyncDone_Untrimmed(t) ==
    /\ UNCHANGED nonMshVars
    /\ epc[t] = "resync_r"
    /\ HasPrompt(rx_buf)
    /\ rx_buf' = <<>>
    /\ WriteLine(eid[t], ecmd[t] \o NL)
    /\ ecw' = [ecw EXCEPT ![t] = Len(wlog) + 1]
    /\ epc' = [epc EXCEPT ![t] = "cmd_r"]
    /\ UNCHANGED <<msh_lock, msh_waiters, bootstrapped, ecmd, eid, eret, nexec>>

\* the resync read saw a prompt: clear the buffer, write the command line
ExecResyncDone(t) ==
    /\ UNCHANGED nonMshVars
    /\ epc[t] = "resync_r"
    /\ HasPrompt(rx_buf)
    /\ rx_buf' = <<>>
    /\ WriteLine(eid[t], Strip(ecmd[t]) \o NL)
    /\ ecw' = [ecw EXCEPT ![t] = Len(wlog) + 1]
    /\ epc' = [epc EXCEPT ![t] = "cmd_r"]
    /\ UNCHANGED <<msh_lock, msh_waiters, bootstrapped, ecmd, eid, eret, nexec>>

\* exec returning the buffer without clearing it
ExecReturn_KeepBuffer(t) ==
    /\ UNCHANGED nonMshVars
    /\ epc[t] = "cmd_r"
    /\ HasPrompt(rx_buf)
    /\ eret' = [eret EXCEPT ![t] = rx_buf]
    /\ Unlock(t)
    /\ epc' = [epc EXCEPT ![t] = "ret"]
    /\ UNCHANGED <<rx_buf, bootstrapped, ecmd, eid, ecw, nexec, wlog, iolog, pipe>>

\* the command read saw a prompt: exec returns the buffer and clears it
ExecReturn(t) ==
    /\ UNCHANGED nonMshVars
    /\ epc[t] = "cmd_r"
    /\ HasPrompt(rx_buf)
    /\ eret' = [eret EXCEPT ![t] = rx_buf]
    /\ rx_buf' = <<>>
    /\ Unlock(t)
    /\ epc' = [epc EXCEPT ![t] = "ret"]
    /\ UNCHANGED <<bootstrapped, ecmd, eid, ecw, nexec, wlog, iolog, pipe>>

\* an exception leaves exec and the lock stays held
ExecRaise_KeepLock(t) ==
    /\ epc' = [epc EXCEPT ![t] = "raised"]
    /\ UNCHANGED <<rx_buf, msh_lock, msh_waiters, bootstrapped, ecmd, eid, ecw, eret,
                   nexec, wlog, iolog, pipe>>

\* an exception leaves exec: the buffer is kept, the lock is released
ExecRaise(t) ==
    /\ Unlock(t)
    /\ epc' = [epc EXCEPT ![t] = "raised"]
    /\ UNCHANGED <<rx_buf, bootstrapped, ecmd, eid, ecw, eret, nexec, wlog, iolog,
                   pipe>>

\* _read_until_prompt: no prompt in the buffer and the time is up
ExecTimeout(t) ==
    /\ UNCHANGED nonMshVars
    /\ InSection(t)
    /\ ~HasPrompt(rx_buf)
    /\ ExecRaise(t)

\* reader.read raises (the serial port failed)
ExecIOError(t) ==
    /\ UNCHANGED nonMshVars
    /\ InSection(t)
    /\ ~HasPrompt(rx_buf)
    /\ ExecRaise(t)

(***************************************************************************)
(* Callers of the session taken alone: every task calls exec again and     *)
(* again (a polling loop with its command, a client with any command).     *)
(***************************************************************************)
\* a command with whitespace around it, as a client may send it
PADDED == <<" ", "g", "e", "t", "a", "l", "l", "\t">>

CallerCmds(t) == IF t = Poll THEN {STATUS} ELSE {STATUS, PADDED}

CallerCall(t) ==
    /\ \E cmd \in CallerCmds(t) : ExecCall(t, cmd)
    /\ UNCHANGED nonMshVars

\* the values of a task with no exec call under way
ExecIdle(t) ==
    /\ epc' = [epc EXCEPT ![t] = "idle"]
    /\ ecmd' = [ecmd EXCEPT ![t] = <<>>]
    /\ eid' = [eid EXCEPT ![t] = 0]
    /\ ecw' = [ecw EXCEPT ![t] = 0]
    /\ eret' = [eret EXCEPT ![t] = <<>>]

\* the caller takes the result (or the exception) of its exec
CallerCollect(t) ==
    /\ epc[t] \in {"ret", "raised"}
    /\ ExecIdle(t)
    /\ UNCHANGED <<nonMshVars, rx_buf, msh_lock, msh_waiters, bootstrapped,
                   nexec, wlog, iolog, pipe>>

MshNext ==
    \/ \E t \in Callers : CallerCall(t)
    \/ \E t \in Tasks : CallerCollect(t)
    \/ \E t \in Tasks : ExecAcquired(t)
    \/ \E t \in Tasks : ExecRead(t)
    \/ \E t \in Tasks : ExecBootDone(t)
    \/ \E t \in Tasks : ExecResyncDone(t)
    \/ \E t \in Tasks : ExecReturn(t)
    \/ \E t \in Tasks : ExecTimeout(t)
    \/ \E t \in Tasks : ExecIOError(t)

(***************************************************************************)
(* audit.py: AuditLogger. An event is a record; seq stands for what makes  *)
(* two events differ (ts_ms and the content), who, cmd, allowed and reason *)
(* are the fields ws_handler gives, n is dropped_total of an audit_drop.   *)
(***************************************************************************)
Event(kind, seq, who, cmd, allowed, reason) ==
    [kind |-> kind, seq |-> seq, who |-> who, cmd |-> cmd, allowed |-> allowed,
     reason |-> reason, n |-> 0]

\* {"__audit_shutdown__": True}
Sentinel == [Event("__audit_shutdown__", 0, NoTask, <<>>, FALSE, NoVerdict) EXCEPT !.n = 0]

\* {"kind": "audit_drop", ..., "dropped_total": n}
DropEvent(seq, n) == [Event("audit_drop", seq, NoTask, <<>>, FALSE, NoVerdict) EXCEPT !.n = n]

IsSentinel(item) == item.kind = "__audit_shutdown__"

\* a queue that never counts as full
Full_Never(q) == FALSE

\* asyncio.Queue.full() of a queue with maxsize a_max_queue
Full(q) == a_max_queue > 0 /\ Len(q) >= a_max_queue

\* the items of q that are not the sentinel, in order
RECURSIVE NonSentinel(_)
NonSentinel(q) ==
    IF q = <<>> THEN <<>>
    ELSE IF IsSentinel(Head(q)) THEN NonSentinel(Tail(q))
    ELSE <<Head(q)>> \o NonSentinel(Tail(q))

AuditInit(inited, mq, fe) ==
    /\ audit_inited = inited
    /\ a_max_queue = mq
    /\ a_flush_every = fe
    /\ a_q = <<>>
    /\ a_task = FALSE
    /\ a_writer = "none"
    /\ a_dropped = 0
    /\ a_flush_count = 0
    /\ a_file = <<>>
    /\ a_synced = 0
    /\ a_stop = "idle"
    /\ a_log = <<>>
    /\ a_enq = <<>>
    /\ a_at_stop = [enq |-> 0, queued |-> 0]
    /\ a_drained = 0

\* log() whose second put_nowait finds room in the queue
Log_DropQueued(kind, who, cmd, allowed, reason) ==
    LET e == Event(kind, Len(a_log) + 1, who, cmd, allowed, reason) IN
    /\ a_log' = Append(a_log, e)
    /\ IF ~Full(a_q)
       THEN /\ a_q' = Append(a_q, e)
            /\ a_enq' = Append(a_enq, e)
            /\ UNCHANGED a_dropped
       ELSE /\ a_dropped' = a_dropped + 1
            /\ a_q' = Append(a_q, DropEvent(Len(a_log) + 1, a_dropped + 1))
            /\ UNCHANGED a_enq
    /\ UNCHANGED <<audit_inited, a_max_queue, a_flush_every, a_task, a_writer,
                   a_flush_count, a_file, a_synced, a_stop, a_at_stop, a_drained>>

\* AuditLogger.log(event): put_nowait, and when the queue is full count the
\* drop and try to put an audit_drop event
Log(kind, who, cmd, allowed, reason) ==
    LET e == Event(kind, Len(a_log) + 1, who, cmd, allowed, reason) IN
    /\ a_log' = Append(a_log, e)
    /\ IF ~Full(a_q)
       THEN /\ a_q' = Append(a_q, e)
            /\ a_enq' = Append(a_enq, e)
            /\ UNCHANGED a_dropped
       ELSE /\ a_dropped' = a_dropped + 1
            /\ IF ~Full(a_q)
               THEN a_q' = Append(a_q, DropEvent(Len(a_log) + 1, a_dropped + 1))
               ELSE UNCHANGED a_q
            /\ UNCHANGED a_enq
    /\ UNCHANGED <<audit_inited, a_max_queue, a_flush_every, a_task, a_writer,
                   a_flush_count, a_file, a_synced, a_stop, a_at_stop, a_drained>>

\* audit_log(event) that calls log() whether or not the sink is initialised
audit_log_unguarded(kind, who, cmd, allowed, reason) == Log(kind, who, cmd, allowed, reason)

\* audit_log(event): nothing happens while the module-level sink is None
audit_log(kind, who, cmd, allowed, reason) ==
    IF audit_inited THEN Log(kind, who, cmd, allowed, reason) ELSE UNCHANGED auditVars

\* AuditLogger.start(): create the writer task unless there is one
AuditStart ==
    /\ UNCHANGED nonAuditVars
    /\ a_stop \in {"idle", "returned"}
    /\ ~a_task
    /\ a_task' = TRUE
    /\ a_writer' = "run"
    /\ a_flush_count' = 0
    /\ a_stop' = "idle"
    /\ UNCHANGED <<audit_inited, a_max_queue, a_flush_every, a_q, a_dropped, a_file,
                   a_synced, a_log, a_enq, a_at_stop, a_drained>>

\* item = await self._q.get() taking the newest item
QueueGet_Last(q) == [item |-> q[Len(q)], rest |-> SubSeq(q, 1, Len(q) - 1)]

\* item = await self._q.get(): the oldest item
QueueGet(q) == [item |-> Head(q), rest |-> Tail(q)]

\* a writer that syncs one line late
WriterStep_LateSync ==
    /\ UNCHANGED nonAuditVars
    /\ a_writer = "run"
    /\ a_q # <<>>
    /\ LET got == QueueGet(a_q) IN
       IF IsSentinel(got.item)
       THEN LET rest == NonSentinel(got.rest) IN
            /\ a_file' = a_file \o rest
            /\ a_q' = <<>>
            /\ a_synced' = Len(a_file')
            /\ a_drained' = a_drained + Len(rest)
            /\ a_writer' = "exited"
            /\ UNCHANGED a_flush_count
       ELSE /\ a_file' = Append(a_file, got.item)
            /\ a_q' = got.rest
            /\ IF a_flush_count + 1 > a_flush_every
               THEN a_synced' = Len(a_file') /\ a_flush_count' = 0
               ELSE a_flush_count' = a_flush_count + 1 /\ UNCHANGED a_synced
            /\ UNCHANGED <<a_writer, a_drained>>
    /\ UNCHANGED <<audit_inited, a_max_queue, a_flush_every, a_task, a_dropped,
                   a_stop, a_log, a_enq, a_at_stop>>

\* one turn of the loop of _run_writer, from q.get() to the next q.get()
WriterStep ==
    /\ UNCHANGED nonAuditVars
    /\ a_writer = "run"
    /\ a_q # <<>>
    /\ LET got == QueueGet(a_q) IN
       IF IsSentinel(got.item)
       THEN LET rest == NonSentinel(got.rest) IN
            /\ a_file' = a_file \o rest
            /\ a_q' = <<>>
            /\ a_synced' = Len(a_file')
            /\ a_drained' = a_drained + Len(rest)
            /\ a_writer' = "exited"
            /\ UNCHANGED a_flush_count
       ELSE /\ a_file' = Append(a_file, got.item)
            /\ a_q' = got.rest
            /\ IF a_flush_count + 1 >= a_flush_every
               THEN a_synced' = Len(a_file') /\ a_flush_count' = 0
               ELSE a_flush_count' = a_flush_count + 1 /\ UNCHANGED a_synced
            /\ UNCHANGED <<a_writer, a_drained>>
    /\ UNCHANGED <<audit_inited, a_max_queue, a_flush_every, a_task, a_dropped,
                   a_stop, a_log, a_enq, a_at_stop>>

\* AuditLogger.stop() is called on a started logger: put the sentinel, or be
\* suspended in put while the queue is full
stop_audit ==
    /\ a_stop = "idle"
    /\ a_task
    /\ a_at_stop' = [enq |-> Len(a_enq), queued |-> Len(a_q)]
    /\ IF ~Full(a_q)
       THEN a_q' = Append(a_q, Sentinel) /\ a_stop' = "join"
       ELSE a_stop' = "put" /\ UNCHANGED a_q
    /\ UNCHANGED <<audit_inited, a_max_queue, a_flush_every, a_task, a_writer,
                   a_dropped, a_flush_count, a_file, a_synced, a_log, a_enq,
                   a_drained>>

\* stop() is called on the started logger
AuditStopCall ==
    /\ stop_audit
    /\ UNCHANGED nonAuditVars

\* the suspended put of stop() goes on once the queue has room
AuditStopPut ==
    /\ UNCHANGED nonAuditVars
    /\ a_stop = "put"
    /\ ~Full(a_q)
    /\ a_q' = Append(a_q, Sentinel)
    /\ a_stop' = "join"
    /\ UNCHANGED <<audit_inited, a_max_queue, a_flush_every, a_task, a_writer,
                   a_dropped, a_flush_count, a_file, a_synced, a_log, a_enq,
                   a_at_stop, a_drained>>

\* await self._task going on although the writer still runs
WriterExited_NoWait == TRUE

\* await self._task: the writer task has ended
WriterExited == a_writer = "exited"

\* stop() returns: await self._task is over, self._task = None
AuditStopJoin ==
    /\ UNCHANGED nonAuditVars
    /\ a_stop = "join"
    /\ WriterExited
    /\ a_task' = FALSE
    /\ a_stop' = "returned"
    /\ UNCHANGED <<audit_inited, a_max_queue, a_flush_every, a_q, a_writer,
                   a_dropped, a_flush_count, a_file, a_synced, a_log, a_enq,
                   a_at_stop, a_drained>>

(***************************************************************************)
(* telemetry.py: TelemetryHub. A parsed status is a function from the keys *)
(* it has to their values; parsed.get(k) of a key it lacks is None.        *)
(***************************************************************************)
None == "None"

\* the keys of core in _fingerprint, as json.dumps(sort_keys=True) orders them
CoreKeys == <<"env", "error", "io_flags", "laser_state", "lock", "power_out",
              "pressure", "tem", "warning", "work_mode", "work_state">>

\* the keys and values of the parsed statuses given to changed(): two keys
\* of core and one key that core leaves out
StatusKeys == {"work_state", "tem", "rtc_time"}
StatusValues == {"a", "b"}
StatusRecords == UNION {[D -> StatusValues] : D \in SUBSET StatusKeys}

\* parsed.get(k)
Get(parsed, k) == IF k \in DOMAIN parsed THEN parsed[k] ELSE None

\* _fingerprint(parsed): the key, value pairs of core in sorted key order
Fingerprint(parsed) == [i \in DOMAIN CoreKeys |-> <<CoreKeys[i], Get(parsed, CoreKeys[i])>>]

\* changed() that leaves the cache as it is
changed_cache_kept(parsed) ==
    /\ c_call' = <<[p |-> parsed, before |-> last_fingerprint,
                    ret |-> Fingerprint(parsed) # last_fingerprint]>>
    /\ c_prev' = IF c_call = <<>> THEN <<>> ELSE <<c_call[1].p>>
    /\ UNCHANGED last_fingerprint

\* the value changed(parsed) returns
changed_ret(parsed) == Fingerprint(parsed) # last_fingerprint

\* TelemetryHub.changed(parsed)
changed(parsed) ==
    /\ last_fingerprint' =
          IF changed_ret(parsed) THEN Fingerprint(parsed) ELSE last_fingerprint
    /\ c_call' = <<[p |-> parsed, before |-> last_fingerprint, ret |-> changed_ret(parsed)]>>
    /\ c_prev' = IF c_call = <<>> THEN <<>> ELSE <<c_call[1].p>>

Sinks == Clients

\* TelemetryHub.__init__, no broadcast and no poll iteration yet
HubInit ==
    /\ last_fingerprint = <<>>
    /\ c_call = <<>>
    /\ c_prev = <<>>
    /\ hub_waiters = <<>>
    /\ s_pc = [s \in Sinks |-> "out"]
    /\ s_recv = [s \in Sinks |-> <<>>]
    /\ s_from = [s \in Sinks |-> [taken |-> 0, called |-> 0]]
    /\ s_mark = [s \in Sinks |-> 0]
    /\ b_pc = [t \in LoopTasks |-> "idle"]
    /\ b_id = 0
    /\ b_name = [t \in LoopTasks |-> ""]
    /\ b_S = {}
    /\ b_visited = <<>>
    /\ b_dead = {}
    /\ b_last = <<>>
    /\ l_pc = [t \in LoopTasks |-> "top"]
    /\ l_parsed = <<>>
    /\ l_log = <<>>

\* asyncio.Lock.acquire() of the hub lock always taking the lock at once
HubLockFree_Always(lock, waiters) == TRUE

\* asyncio.Lock.acquire() takes the lock at once iff it is neither held nor
\* waited for
HubLockFree(lock, waiters) == lock = NoTask /\ waiters = <<>>

\* the holder and the waiters after the holder left "async with self._lock"
HubReleased(waiters) ==
    IF waiters = <<>> THEN [lock |-> NoTask, waiters |-> <<>>]
    ELSE [lock |-> Head(waiters), waiters |-> Tail(waiters)]

\* remove() that leaves the set as it is
RemoveSink_Keep(clients, s) == clients

\* self._clients.add(ws), self._clients.discard(ws)
AddSink(clients, s) == clients \cup {s}
RemoveSink(clients, s) == clients \ {s}

\* broadcast() that leaves the dead sinks in the set
DiscardDead_Keep(clients, dead) == clients

\* for ws in dead: self._clients.discard(ws)
DiscardDead(clients, dead) == clients \ dead

\* the broadcast in progress (suspended in a send), 0 if there is none
InProgress == IF \E t \in LoopTasks : b_pc[t] = "send" THEN b_id ELSE 0

\* the number of calls of broadcast so far: the calls that have taken the lock
\* and those that wait for it
Called == b_id + Cardinality({t \in LoopTasks : b_pc[t] = "wait"})

\* the body of add() or remove() of sink s under the lock
SinkBody(s, adding) ==
    /\ hub_clients' = IF adding THEN AddSink(hub_clients, s) ELSE RemoveSink(hub_clients, s)
    /\ s_pc' = [s_pc EXCEPT ![s] = IF adding THEN "in" ELSE "removed"]
    /\ s_from' = [s_from EXCEPT ![s] = IF adding THEN [taken |-> b_id, called |-> Called] ELSE @]

\* hub.add(ws) or hub.remove(ws) is called: done at once if the lock is free,
\* else the caller waits for the lock
SinkCall(s, adding) ==
    /\ s_mark' = [s_mark EXCEPT ![s] = InProgress]
    /\ IF HubLockFree(hub_lock, hub_waiters)
       THEN /\ SinkBody(s, adding)
            /\ UNCHANGED <<hub_lock, hub_waiters>>
       ELSE /\ hub_waiters' = Append(hub_waiters, s)
            /\ s_pc' = [s_pc EXCEPT ![s] = IF adding THEN "add_wait" ELSE "remove_wait"]
            /\ UNCHANGED <<hub_lock, hub_clients, s_from>>
    /\ UNCHANGED <<pureVars, mshVars, auditVars, handlerVars, changedVars, loopVars,
                   s_recv, b_pc, b_id, b_name, b_S, b_visited, b_dead, b_last>>

SinkAddCall(s) == s_pc[s] = "out" /\ SinkCall(s, TRUE)

SinkRemoveCall(s) == s_pc[s] = "in" /\ SinkCall(s, FALSE)

\* a waiting add() or remove() was given the lock: it runs and releases it
SinkAcquired(s) ==
    /\ hub_lock = s
    /\ s_pc[s] \in {"add_wait", "remove_wait"}
    /\ SinkBody(s, s_pc[s] = "add_wait")
    /\ hub_lock' = HubReleased(hub_waiters).lock
    /\ hub_waiters' = HubReleased(hub_waiters).waiters
    /\ UNCHANGED <<pureVars, mshVars, auditVars, handlerVars, changedVars, loopVars,
                   s_recv, s_mark, b_pc, b_id, b_name, b_S, b_visited, b_dead, b_last>>

\* the for loop of broadcast() is entered by task t with the lock held
BroadcastBegin(t, clients) ==
    /\ b_pc' = [b_pc EXCEPT ![t] = "send"]
    /\ b_id' = b_id + 1
    /\ b_S' = clients
    /\ b_visited' = <<>>
    /\ b_dead' = {}

\* hub.broadcast(msg) is called by task t when the lock is in state (lock,
\* waiters) and the set is clients: the call up to its first suspension
BroadcastCall(t, name, lock, waiters, clients) ==
    /\ b_name' = [b_name EXCEPT ![t] = name]
    /\ IF HubLockFree(lock, waiters)
       THEN /\ hub_lock' = t
            /\ hub_waiters' = waiters
            /\ BroadcastBegin(t, clients)
       ELSE /\ hub_lock' = lock
            /\ hub_waiters' = Append(waiters, t)
            /\ b_pc' = [b_pc EXCEPT ![t] = "wait"]
            /\ UNCHANGED <<b_id, b_S, b_visited, b_dead>>

\* a task whose cancel() was called takes no step of its own: its next turn
\* is the one in which the CancelledError is thrown into it
Running(t) == t \notin cancelling

\* the waiting broadcast of task t was given the lock
BAcquired(t) ==
    /\ Running(t)
    /\ hub_lock = t
    /\ b_pc[t] = "wait"
    /\ BroadcastBegin(t, hub_clients)
    /\ UNCHANGED <<pureVars, mshVars, auditVars, wsVars, changedVars, loopVars,
                   hub_waiters, s_pc, s_recv, s_from, s_mark, b_name, b_last>>

\* the sinks the for loop has not come to yet
ToVisit == hub_clients \ Range(b_visited)

\* await ws.send(payload) returns for the next sink of the for loop
BSendOk(s) ==
    /\ \E t \in LoopTasks : b_pc[t] = "send" /\ Running(t)
    /\ s \in ToVisit
    /\ b_visited' = Append(b_visited, s)
    /\ s_recv' = [s_recv EXCEPT ![s] =
                     Append(@, [id |-> b_id, pc |-> s_pc[s], from |-> s_from[s]])]
    /\ UNCHANGED <<pureVars, mshVars, auditVars, wsVars, changedVars, loopVars,
                   hub_waiters, s_pc, s_from, s_mark, b_pc, b_id, b_name, b_S, b_dead,
                   b_last>>

\* await ws.send(payload) raises for the next sink: dead.append(ws)
BSendFail(s) ==
    /\ \E t \in LoopTasks : b_pc[t] = "send" /\ Running(t)
    /\ s \in ToVisit
    /\ b_visited' = Append(b_visited, s)
    /\ b_dead' = b_dead \cup {s}
    /\ UNCHANGED <<pureVars, mshVars, auditVars, wsVars, changedVars, loopVars,
                   hub_waiters, s_pc, s_recv, s_from, s_mark, b_pc, b_id, b_name, b_S,
                   b_last>>

(***************************************************************************)
(* telemetry.py: poll_status_loop, the caller of broadcast(): exec of      *)
(* "status", then the broadcast of the heartbeat and, when the status      *)
(* changed, of the status, or of status_error when the try block was left  *)
(* by an exception, then a sleep. poll_process_loop and poll_getall_loop,  *)
(* which main.py imports and starts, are not in the source.                *)
(***************************************************************************)
\* the parsed statuses the polled device gives
PolledRecords ==
    {p \in StatusRecords :
        /\ "work_state" \in DOMAIN p
        /\ "tem" \notin DOMAIN p
        /\ ("rtc_time" \in DOMAIN p => p["rtc_time"] = "a" /\ p["work_state"] = "a")}

\* the record of the iteration under way, with an event added
Emitted(name) ==
    [l_log EXCEPT ![Len(l_log)].events = Append(@, name)]

\* "if hub.changed(parsed)" always sending the status
SendStatus_Always(ret) == TRUE

\* "if hub.changed(parsed)": the status is broadcast iff changed returned true
SendStatus(ret) == ret

\* top of the loop of task t: msh.exec("status") is called
LoopExec(t) ==
    /\ Running(t)
    /\ l_pc[t] = "top"
    /\ Len(l_log) < MaxPolls
    /\ ExecCall(t, STATUS)
    /\ l_pc' = [l_pc EXCEPT ![t] = "exec"]
    /\ UNCHANGED <<pureVars, auditVars, wsVars, changedVars, fanoutVars, l_parsed, l_log>>

\* exec returned and parse_status_block gave parsed: broadcast the heartbeat
LoopExecOk ==
    /\ Running(Poll)
    /\ l_pc[Poll] = "exec"
    /\ epc[Poll] = "ret"
    /\ ExecIdle(Poll)
    /\ \E parsed \in PolledRecords : l_parsed' = parsed
    /\ l_log' = Append(l_log, [ok |-> TRUE, chg |-> <<>>, events |-> <<"heartbeat">>,
                                fp0 |-> last_fingerprint])
    /\ BroadcastCall(Poll, "heartbeat", hub_lock, hub_waiters, hub_clients)
    /\ l_pc' = [l_pc EXCEPT ![Poll] = "hb"]
    /\ UNCHANGED <<pureVars, auditVars, handlerVars, changedVars, hub_clients,
                   rx_buf, msh_lock, msh_waiters, bootstrapped, nexec, wlog, iolog,
                   pipe, s_pc, s_recv, s_from, s_mark, b_last>>

\* the try block of the iteration was left by an exception: exec raised, or
\* exec returned a text on which parse_status_block raises
TryFailed(t) == epc[t] = "raised" \/ epc[t] = "ret"

\* the record of an iteration of poll_status_loop that failed
FailedIteration(t, events) ==
    Append(l_log, [ok |-> FALSE, chg |-> <<>>, events |-> events,
                   fp0 |-> last_fingerprint])

\* the exception ends the loop
LoopExecFail_End(t) ==
    /\ Running(t)
    /\ l_pc[t] = "exec"
    /\ TryFailed(t)
    /\ ExecIdle(t)
    /\ l_log' = FailedIteration(t, <<>>)
    /\ l_pc' = [l_pc EXCEPT ![t] = "ended"]
    /\ UNCHANGED <<pureVars, auditVars, wsVars, changedVars, fanoutVars,
                   rx_buf, msh_lock, msh_waiters, bootstrapped, nexec, wlog, iolog,
                   pipe, l_parsed>>

\* the except branch: broadcast the error event
LoopExecFail(t) ==
    /\ Running(t)
    /\ l_pc[t] = "exec"
    /\ TryFailed(t)
    /\ ExecIdle(t)
    /\ l_log' = FailedIteration(t, <<"status_error">>)
    /\ BroadcastCall(t, "status_error", hub_lock, hub_waiters, hub_clients)
    /\ l_pc' = [l_pc EXCEPT ![t] = "err"]
    /\ UNCHANGED <<pureVars, auditVars, handlerVars, changedVars, hub_clients,
                   rx_buf, msh_lock, msh_waiters, bootstrapped, nexec, wlog, iolog,
                   pipe, s_pc, s_recv, s_from, s_mark, b_last, l_parsed>>

\* the for loop of the broadcast() of task t is over: the dead sinks are
\* discarded, the lock is released and broadcast() returns to the loop;
\* poll_status_loop after a heartbeat calls changed(parsed) and, if it is
\* true, broadcasts the status
BReturn(t) ==
    /\ Running(t)
    /\ b_pc[t] = "send"
    /\ ToVisit = {}
    /\ LET after == DiscardDead(hub_clients, b_dead)
           rel == HubReleased(hub_waiters)
       IN  /\ hub_clients' = after
           /\ b_last' = <<[id |-> b_id, name |-> b_name[t], S |-> b_S,
                           order |-> b_visited, dead |-> b_dead, after |-> after]>>
           /\ IF l_pc[t] = "hb" /\ SendStatus(changed_ret(l_parsed))
              THEN /\ changed(l_parsed)
                   /\ BroadcastCall(t, "status", rel.lock, rel.waiters, after)
                   /\ l_log' = [Emitted("status") EXCEPT
                                   ![Len(l_log)].chg = <<changed_ret(l_parsed)>>]
                   /\ l_pc' = [l_pc EXCEPT ![t] = "status"]
                   /\ UNCHANGED l_parsed
              ELSE /\ IF l_pc[t] = "hb"
                      THEN /\ changed(l_parsed)
                           /\ l_log' = [l_log EXCEPT ![Len(l_log)].chg = <<FALSE>>]
                      ELSE UNCHANGED <<changedVars, l_log>>
                   /\ hub_lock' = rel.lock
                   /\ hub_waiters' = rel.waiters
                   /\ b_pc' = [b_pc EXCEPT ![t] = "idle"]
                   /\ b_name' = [b_name EXCEPT ![t] = ""]
                   /\ b_S' = {}
                   /\ b_visited' = <<>>
                   /\ b_dead' = {}
                   /\ l_parsed' = <<>>
                   /\ l_pc' = [l_pc EXCEPT ![t] =
                                  IF @ \in {"hb", "status", "err"}
                                  THEN "sleep" ELSE @]
                   /\ UNCHANGED b_id
    /\ UNCHANGED <<pureVars, mshVars, auditVars, handlerVars, s_pc, s_recv, s_from,
                   s_mark>>

\* await asyncio.sleep(...) returns: the next iteration
LoopSleep(t) ==
    /\ Running(t)
    /\ l_pc[t] = "sleep"
    /\ l_pc' = [l_pc EXCEPT ![t] = "top"]
    /\ UNCHANGED <<pureVars, mshVars, auditVars, wsVars, changedVars, fanoutVars,
                   l_parsed, l_log>>

\* poll_status_loop with the session, the device and the hub
PollNext ==
    \/ LoopExec(Poll)
    \/ LoopExecOk
    \/ LoopExecFail(Poll)
    \/ LoopSleep(Poll)
    \/ ExecRead(Poll)
    \/ ExecBootDone(Poll)
    \/ ExecResyncDone(Poll)
    \/ ExecReturn(Poll)
    \/ ExecTimeout(Poll)
    \/ ExecIOError(Poll)
    \/ BAcquired(Poll)
    \/ \E s \in Sinks : BSendOk(s)
    \/ \E s \in Sinks : BSendFail(s)
    \/ BReturn(Poll)
    \/ \E s \in Sinks : SinkAddCall(s)
    \/ \E s \in Sinks : SinkAcquired(s)

\* broadcast() is called by a polling task, whatever the event
HubBroadcastCall(t) ==
    /\ b_pc[t] = "idle"
    /\ Called < MaxBroadcasts
    /\ BroadcastCall(t, "event", hub_lock, hub_waiters, hub_clients)
    /\ UNCHANGED <<pureVars, mshVars, auditVars, handlerVars, changedVars, loopVars,
                   hub_clients, s_pc, s_recv, s_from, s_mark, b_last>>

\* the hub taken alone: sinks added and removed while broadcasts are made
HubNext ==
    \/ \E s \in Sinks : SinkAddCall(s)
    \/ \E s \in Sinks : SinkRemoveCall(s)
    \/ \E s \in Sinks : SinkAcquired(s)
    \/ \E t \in LoopTasks : HubBroadcastCall(t)
    \/ \E t \in LoopTasks : BAcquired(t)
    \/ \E s \in Sinks : BSendOk(s)
    \/ \E s \in Sinks : BSendFail(s)
    \/ \E t \in LoopTasks : BReturn(t)

(***************************************************************************)
(* ws.py: ws_handler, one per client connection, with the hub's subscriber *)
(* set (telemetry.py add and remove). A step of the handler runs from one  *)
(* suspension point to the next. The frames a client sends are well formed *)
(* (a map with a string cmd).                                              *)
(***************************************************************************)
REBOOT == <<"r","e","b","o","o","t">>

\* the cmd of the exec frames clients send: an allowed getter, a blocked verb,
\* an allowed getter followed by a newline
WsCmds == {STATUS, REBOOT, STATUS \o NL}

Frame(type, id, cmd) == [type |-> type, id |-> id, cmd |-> cmd]
NoFrame == Frame("", 0, <<>>)

\* the frames a client may send as its n-th frame
ExecFrames(n, cmds) == {Frame("exec", n, cmd) : cmd \in cmds}

FramesOf(n) ==
    {Frame("subscribe", 0, <<>>), Frame("wat", 0, <<>>)} \cup ExecFrames(n, WsCmds)

Msg(type, name, id, ok, error, reason, stdout) ==
    [type |-> type, name |-> name, id |-> id, ok |-> ok, error |-> error,
     reason |-> reason, stdout |-> stdout]
NoMsg == Msg("", "", 0, FALSE, "", NoVerdict, <<>>)

GetallEvent(stdout) == Msg("event", "getall", 0, TRUE, "", NoVerdict, stdout)
GetallError == Msg("event", "getall_error", 0, FALSE, "exec raised", NoVerdict, <<>>)
SubscribeAck == Msg("ack", "subscribe", 0, TRUE, "", NoVerdict, <<>>)
UnknownType(t) == Msg("error", t, 0, FALSE, "Unknown message type: ", NoVerdict, <<>>)
Rejected(id, reason) ==
    Msg("result", "", id, FALSE, "Command not allowed by policy", reason, <<>>)
\* results that do not carry the id of the request
ResultOk_NoId(id, stdout) == Msg("result", "", 0, TRUE, "", NoVerdict, stdout)
ResultError_NoId(id) == Msg("result", "", 0, FALSE, "exec raised", NoVerdict, <<>>)

ResultOk(id, stdout) == Msg("result", "", id, TRUE, "", NoVerdict, stdout)
ResultError(id) == Msg("result", "", id, FALSE, "exec raised", NoVerdict, <<>>)

\* the connections ws_handler runs for
Handlers == 1 .. NumHandlers

WsInit ==
    /\ serving = TRUE
    /\ cancelling = {}
    /\ hub_clients = {}
    /\ hub_lock = NoTask
    /\ hpc = [c \in Handlers |-> "new"]
    /\ hframe = [c \in Handlers |-> NoFrame]
    /\ hreply = [c \in Handlers |-> NoMsg]
    /\ hsent = [c \in Handlers |-> <<>>]
    /\ hnframes = [c \in Handlers |-> 0]
    /\ h_frames = <<>>
    /\ h_sess = <<>>
    /\ h_recv = [c \in Handlers |-> <<>>]

\* ws_handler is entered: hub.add(ws), audit connect, exec("getall") is called
HConnect(c) ==
    /\ serving
    /\ hpc[c] = "new"
    /\ hub_lock = NoTask
    /\ hub_clients' = hub_clients \cup {c}
    /\ audit_log("connect", c, <<>>, FALSE, NoVerdict)
    /\ ExecCall(c, GETALL)
    /\ hpc' = [hpc EXCEPT ![c] = "greet_exec"]
    /\ UNCHANGED <<hubVars, pureVars, mainVars, hub_lock, hframe, hreply, hsent, hnframes, h_frames, h_sess, h_recv>>

\* the handler takes the result (or the exception) of the exec it awaited
\* and starts sending reply; it goes on at next
HTakeExec(c, reply, next) ==
    /\ ExecIdle(c)
    /\ hreply' = [hreply EXCEPT ![c] = reply]
    /\ hpc' = [hpc EXCEPT ![c] = next]
    /\ UNCHANGED <<hubVars, pureVars, auditVars, rx_buf, msh_lock, msh_waiters, bootstrapped,
                   nexec, wlog, iolog, pipe, mainVars, hub_clients, hub_lock,
                   hframe, hsent, hnframes, h_frames, h_sess, h_recv>>

\* exec("getall") returned and the handler goes on to its loop without a message
HGreetOk_Silent(c) ==
    /\ hpc[c] = "greet_exec"
    /\ epc[c] = "ret"
    /\ HTakeExec(c, NoMsg, "recv")

\* exec("getall") returned: send the getall event
HGreetOk(c) ==
    /\ hpc[c] = "greet_exec"
    /\ epc[c] = "ret"
    /\ HTakeExec(c, GetallEvent(eret[c]), "greet_send")

\* exec("getall") raised and the handler goes on to its loop without a message
HGreetFail_Skip(c) ==
    /\ hpc[c] = "greet_exec"
    /\ epc[c] = "raised"
    /\ HTakeExec(c, NoMsg, "recv")

\* exec("getall") raised: send the getall_error event
HGreetFail(c) ==
    /\ hpc[c] = "greet_exec"
    /\ epc[c] = "raised"
    /\ HTakeExec(c, GetallError, "greet_err_send")

SendStates == {"greet_send", "greet_err_send", "send", "res_send", "err_send"}

\* await ws.send(...) returns: the message was sent
HSendOk(c) ==
    /\ hpc[c] \in SendStates
    /\ hsent' = [hsent EXCEPT ![c] = Append(@, hreply[c])]
    /\ hreply' = [hreply EXCEPT ![c] = NoMsg]
    /\ hframe' = [hframe EXCEPT ![c] = NoFrame]
    /\ hpc' = [hpc EXCEPT ![c] = "recv"]
    /\ UNCHANGED <<hubVars, pureVars, mshVars, auditVars, mainVars, hub_clients, hub_lock,
                   hnframes, h_frames, h_sess, h_recv>>

\* await ws.send(...) raises (the connection is closed): inside a try the
\* except branch sends an error message, in the main loop the finally block
\* runs, and in the except branch of the greeting the handler is left
HSendFail(c) ==
    /\ hpc[c] \in SendStates
    /\ hframe' = [hframe EXCEPT ![c] =
                    IF hpc[c] = "res_send" THEN @ ELSE NoFrame]
    /\ hreply' = [hreply EXCEPT ![c] =
                    CASE hpc[c] = "greet_send" -> GetallError
                      [] hpc[c] = "res_send" -> ResultError(hframe[c].id)
                      [] OTHER -> NoMsg]
    /\ hpc' = [hpc EXCEPT ![c] =
                    CASE hpc[c] = "greet_send" -> "greet_err_send"
                      [] hpc[c] = "greet_err_send" -> "exited"
                      [] hpc[c] = "res_send" -> "err_send"
                      [] OTHER -> "finally"]
    /\ UNCHANGED <<hubVars, pureVars, mshVars, auditVars, mainVars, hub_clients, hub_lock,
                   hsent, hnframes, h_frames, h_sess, h_recv>>

\* "if not allowed" always letting the command through
Gate_Open(v) == TRUE

\* "if not allowed": the command goes on to the session iff the policy allows it
Gate(v) == v.ok

\* audit_log of an exec frame that is made only for allowed commands
AuditExec_AllowedOnly(c, cmd, v) ==
    IF v.ok THEN audit_log("exec", c, cmd, v.ok, v) ELSE UNCHANGED auditVars

\* audit_log of an exec frame that leaves the reason out
AuditExec_NoReason(c, cmd, v) == audit_log("exec", c, cmd, v.ok, NoVerdict)

\* audit_log({"kind": "exec", "cmd": cmd, "allowed": allowed, "reason": reason})
AuditExec(c, cmd, v) == audit_log("exec", c, cmd, v.ok, v)

\* a frame that is not an exec frame arrives as one of the n frames the
\* client sends: reply with an ack or an error
RecvOther(c, n) ==
    /\ hpc[c] = "recv"
    /\ hnframes[c] < n
    /\ \E f \in FramesOf(hnframes[c] + 1) :
          /\ f.type # "exec"
          /\ hframe' = [hframe EXCEPT ![c] = f]
          /\ h_recv' = [h_recv EXCEPT ![c] = Append(@, f)]
          /\ hreply' = [hreply EXCEPT ![c] =
                          IF f.type = "subscribe" THEN SubscribeAck
                          ELSE UnknownType(f.type)]
    /\ hnframes' = [hnframes EXCEPT ![c] = @ + 1]
    /\ hpc' = [hpc EXCEPT ![c] = "send"]
    /\ UNCHANGED <<hubVars, pureVars, mshVars, auditVars, mainVars, hub_clients, hub_lock,
                   hsent, h_frames, h_sess>>

HRecvOther(c) == RecvOther(c, MaxFrames)

\* an exec frame with one of the cmds arrives as one of the n frames the
\* client sends: policy, audit, then the rejection is sent or exec is called
RecvExecOf(c, n, cmds) ==
    /\ hpc[c] = "recv"
    /\ hnframes[c] < n
    /\ \E f \in ExecFrames(hnframes[c] + 1, cmds) :
          LET v == is_allowed(f.cmd) IN
          /\ f.type = "exec"
          /\ hframe' = [hframe EXCEPT ![c] = f]
          /\ h_recv' = [h_recv EXCEPT ![c] = Append(@, f)]
          /\ h_frames' = Append(h_frames, [c |-> c, cmd |-> f.cmd])
          /\ AuditExec(c, f.cmd, v)
          /\ IF ~Gate(v)
             THEN /\ hreply' = [hreply EXCEPT ![c] = Rejected(f.id, v)]
                  /\ hpc' = [hpc EXCEPT ![c] = "send"]
                  /\ UNCHANGED <<mshVars, h_sess>>
             ELSE /\ ExecCall(c, f.cmd)
                  /\ h_sess' = Append(h_sess, [c |-> c, cmd |-> f.cmd])
                  /\ hpc' = [hpc EXCEPT ![c] = "exec_wait"]
                  /\ UNCHANGED hreply
    /\ hnframes' = [hnframes EXCEPT ![c] = @ + 1]
    /\ UNCHANGED <<hubVars, pureVars, mainVars, hub_clients, hub_lock, hsent>>

RecvExec(c, n) == RecvExecOf(c, n, WsCmds)

HRecvExec(c) == RecvExec(c, MaxFrames)

\* the exec of an exec frame returned (and the parser of its verb, if it has
\* one, gave parsed): send the result
HExecOk(c) ==
    /\ hpc[c] = "exec_wait"
    /\ epc[c] = "ret"
    /\ HTakeExec(c, ResultOk(hframe[c].id, eret[c]), "res_send")

\* the exec of a status frame returned a text on which parse_status_block
\* raises: the except branch sends the error result
HExecParseFail(c) ==
    /\ hpc[c] = "exec_wait"
    /\ epc[c] = "ret"
    /\ normalize_verb(hframe[c].cmd) = STATUS
    /\ HTakeExec(c, ResultError(hframe[c].id), "err_send")

\* the exec of an exec frame raised: send the error result
HExecFail(c) ==
    /\ hpc[c] = "exec_wait"
    /\ epc[c] = "raised"
    /\ HTakeExec(c, ResultError(hframe[c].id), "err_send")

\* "async for raw in ws" ends: the client closed the connection
HEof(c) ==
    /\ hpc[c] = "recv"
    /\ hpc' = [hpc EXCEPT ![c] = "finally"]
    /\ UNCHANGED <<hubVars, pureVars, mshVars, auditVars, mainVars, hub_clients, hub_lock,
                   hframe, hreply, hsent, hnframes, h_frames, h_sess, h_recv>>

\* asyncio.wait_for(self.reader.read(512), ...) of _read_until_prompt, when
\* the task is cancelled in it: "except CancelledError: if fut.done(): return
\* fut.result()". The read of task t is done (its data has arrived, or it
\* has failed) and the task has not gone on since: a CancelledError thrown
\* into the task is lost, wait_for returns what the read gave and the task
\* goes on as if it had not been cancelled
CancelLost(t) ==
    \/ InSection(t) /\ (HasPrompt(rx_buf) \/ pipe # <<>>)
    \/ epc[t] \in {"ret", "raised"}

\* a CancelledError thrown into task t ends it where it is suspended: it
\* has no exec under way, or waits for the session lock, or is in a read
\* for which nothing has arrived, or in a read whose time is up
CancelEnds(t) ==
    \/ epc[t] \in {"idle", "wait", "raised"}
    \/ InSection(t) /\ ~HasPrompt(rx_buf)

\* CancelledError reaches an exec under way: the task stops waiting for the
\* lock, or leaves "async with self._lock"
ExecAbort(t) ==
    /\ IF InSection(t) \/ (epc[t] = "wait" /\ msh_lock = t)
       THEN Unlock(t)
       ELSE /\ msh_waiters' = SelectSeq(msh_waiters, LAMBDA u : u # t)
            /\ UNCHANGED msh_lock
    /\ ExecIdle(t)
    /\ UNCHANGED <<rx_buf, bootstrapped, nexec, wlog, iolog, pipe>>

\* a task is cancelled: an exec it has under way is aborted
CancelTask(t) ==
    /\ CancelEnds(t)
    /\ IF epc[t] \in {"wait"} \cup ReadStates
       THEN ExecAbort(t)
       ELSE IF epc[t] = "raised"
       THEN ExecIdle(t) /\ UNCHANGED <<rx_buf, msh_lock, msh_waiters, bootstrapped,
                                        nexec, wlog, iolog, pipe>>
       ELSE UNCHANGED mshVars

\* the handler task is cancelled where it is suspended: in the greeting the
\* handler is left, in the main loop the finally block runs
HCancel(c) ==
    /\ hpc[c] \in {"greet_exec", "exec_wait", "recv"} \cup SendStates
    /\ CancelTask(c)
    /\ hpc' = [hpc EXCEPT ![c] =
                 IF hpc[c] \in {"greet_exec", "greet_send", "greet_err_send"}
                 THEN "exited" ELSE "finally"]
    /\ hreply' = [hreply EXCEPT ![c] = NoMsg]
    /\ hframe' = [hframe EXCEPT ![c] = NoFrame]
    /\ UNCHANGED <<hubVars, pureVars, auditVars, mainVars, hub_clients, hub_lock, hsent,
                   hnframes, h_frames, h_sess, h_recv>>

\* the handler task is cancelled in an exec whose read is done: the
\* cancellation is lost and the handler goes on
HCancelLost(c) ==
    /\ hpc[c] \in {"greet_exec", "exec_wait"}
    /\ CancelLost(c)
    /\ UNCHANGED vars

\* the finally block: hub.remove(ws), audit disconnect; the handler ends
HFinally(c) ==
    /\ hpc[c] = "finally"
    /\ hub_lock = NoTask
    /\ hub_clients' = hub_clients \ {c}
    /\ audit_log("disconnect", c, <<>>, FALSE, NoVerdict)
    /\ hpc' = [hpc EXCEPT ![c] = "exited"]
    /\ UNCHANGED <<hubVars, pureVars, mshVars, mainVars, hub_lock, hframe, hreply, hsent,
                   hnframes, h_frames, h_sess, h_recv>>

\* the turn of polling task t after _amain called its cancel():
\* CancelledError is thrown into it where it is suspended and ends it: an
\* exec under way is aborted, a broadcast leaves "async with self._lock"
\* before it discards the dead clients, or stops waiting for the lock
LoopCancelled(t) ==
    /\ t \in cancelling
    /\ cancelling' = cancelling \ {t}
    /\ CancelTask(t)
    /\ IF b_pc[t] = "send" \/ (b_pc[t] = "wait" /\ hub_lock = t)
       THEN /\ hub_lock' = HubReleased(hub_waiters).lock
            /\ hub_waiters' = HubReleased(hub_waiters).waiters
       ELSE /\ hub_waiters' = SelectSeq(hub_waiters, LAMBDA u : u # t)
            /\ UNCHANGED hub_lock
    /\ IF b_pc[t] = "send"
       THEN b_S' = {} /\ b_visited' = <<>> /\ b_dead' = {}
       ELSE UNCHANGED <<b_S, b_visited, b_dead>>
    /\ b_pc' = [b_pc EXCEPT ![t] = "idle"]
    /\ b_name' = [b_name EXCEPT ![t] = ""]
    /\ l_pc' = [l_pc EXCEPT ![t] = "cancelled"]
    /\ l_parsed' = IF t = Poll THEN <<>> ELSE l_parsed
    /\ UNCHANGED <<pureVars, auditVars, serving, hpc, hframe, hreply, hsent, hnframes,
                   h_frames, h_sess, h_recv, changedVars, hub_clients,
                   s_pc, s_recv, s_from, s_mark, b_id, b_last, l_log>>

\* the turn of polling task t after _amain called its cancel(), in an exec
\* whose read is done: the cancellation is lost, the task is not cancelled
\* any more and goes on with its loop
LoopCancelLost(t) ==
    /\ t \in cancelling
    /\ cancelling' = cancelling \ {t}
    /\ l_pc[t] = "exec"
    /\ CancelLost(t)
    /\ UNCHANGED <<pureVars, mshVars, auditVars, serving, hub_clients, hub_lock, hpc,
                   hframe, hreply, hsent, hnframes, h_frames, h_sess, h_recv, hubVars>>

\* main.py: the finally block of _amain calls cancel() of the three polling
\* tasks and awaits the first of them. The block is entered when "async
\* with websockets.serve(...)" has been left; websockets is not part of the
\* source, and the moment is the one the specification gives: the sink is
\* stopped after all clients are drained, so the serve block has been left
\* only when every handler has ended
ShutdownCancel ==
    /\ serving
    /\ \A c \in Handlers : hpc[c] \in {"new", "exited"}
    /\ serving' = FALSE
    /\ cancelling' = LoopTasks
    /\ UNCHANGED <<pureVars, mshVars, auditVars, hubVars, hub_clients, hub_lock, hpc,
                   hframe, hreply, hsent, hnframes, h_frames, h_sess, h_recv>>

\* "await poll_task", "await process_task" and "await getall_task" have
\* returned, the three polling tasks having ended: stop_audit() is called
ShutdownStop ==
    /\ ~serving
    /\ \A t \in LoopTasks : l_pc[t] = "cancelled"
    /\ stop_audit
    /\ UNCHANGED nonAuditVars

\* the tasks that call exec in the server
HandlerTasks == LoopTasks \cup Handlers

\* main.py: init_audit and start_audit have run before the server starts
AuditStarted(mq, fe) ==
    /\ audit_inited = TRUE
    /\ a_max_queue = mq
    /\ a_flush_every = fe
    /\ a_q = <<>>
    /\ a_task = TRUE
    /\ a_writer = "run"
    /\ a_dropped = 0
    /\ a_flush_count = 0
    /\ a_file = <<>>
    /\ a_synced = 0
    /\ a_stop = "idle"
    /\ a_log = <<>>
    /\ a_enq = <<>>
    /\ a_at_stop = [enq |-> 0, queued |-> 0]
    /\ a_drained = 0

\* one client that sends up to HandlerFrames frames
HRecvOtherN(c) == RecvOther(c, HandlerFrames)
HRecvExecN(c) == RecvExec(c, HandlerFrames)

\* one handler from its connection to its end, with the session, the device
\* and the audit writer
HandlerNext ==
    \/ \E c \in Handlers : HConnect(c)
    \/ \E c \in Handlers : HGreetOk(c)
    \/ \E c \in Handlers : HGreetFail(c)
    \/ \E c \in Handlers : HSendOk(c)
    \/ \E c \in Handlers : HSendFail(c)
    \/ \E c \in Handlers : HRecvOtherN(c)
    \/ \E c \in Handlers : HRecvExecN(c)
    \/ \E c \in Handlers : HExecOk(c)
    \/ \E c \in Handlers : HExecParseFail(c)
    \/ \E c \in Handlers : HExecFail(c)
    \/ \E c \in Handlers : HEof(c)
    \/ \E c \in Handlers : HCancel(c)
    \/ \E c \in Handlers : HCancelLost(c)
    \/ \E c \in Handlers : HFinally(c)
    \/ \E c \in Handlers : ExecRead(c)
    \/ \E c \in Handlers : ExecBootDone(c)
    \/ \E c \in Handlers : ExecResyncDone(c)
    \/ \E c \in Handlers : ExecReturn(c)
    \/ \E c \in Handlers : ExecTimeout(c)
    \/ \E c \in Handlers : ExecIOError(c)
    \/ WriterStep

InitHandler ==
    /\ AuditStarted(MaxQueue, 1)
    /\ WsInit
    /\ HubInit
    /\ MshInit
    /\ PureIdle

SpecHandler == InitHandler /\ [][HandlerNext]_vars

\* the cmd of exec frames of every kind the policy tells apart: getters as
\* written, padded, in upper case and ending in a line break, a setter with
\* and without parameters, blocked verbs, an unknown verb, line breaks and
\* semicolons inside the command, empty commands, and a getter and a blocked
\* verb written with the Kelvin sign, whose lower case is k
LineCmds ==
    { STATUS, <<" ", "S", "t", "a", "t", "u", "s", "\t">>, <<"s", "t", "a", "t", "u", "s", "\n">>, <<"s", "t", "a", "t", "u", "s", "\r", "\n">>, <<"f", "a", "n", " ", "1">>, <<"f", "a", "n">>, REBOOT, <<"R", "e", "b", "o", "o", "t", " ", "n", "o", "w">>,
      <<"s", "t", "a", "t", "u", "s", "\n", "r", "e", "b", "o", "o", "t">>, <<"s", "t", "a", "t", "u", "s", "\r", "r", "e", "b", "o", "o", "t">>, <<"s", "t", "a", "t", "u", "s", ";", "r", "e", "b", "o", "o", "t">>, <<"l", "s">>, <<>>, <<" ", "\n">>,
      <<"l", "o", "c", "U+212A">>, <<"o", "n", "U+212A", "e", "y">> }

HRecvExecLine(c) == RecvExecOf(c, MaxFrames, LineCmds)

\* one handler whose client sends exec frames with any of the LineCmds
ExecLineNext ==
    \/ \E c \in Handlers : HConnect(c)
    \/ \E c \in Handlers : HGreetOk(c)
    \/ \E c \in Handlers : HGreetFail(c)
    \/ \E c \in Handlers : HSendOk(c)
    \/ \E c \in Handlers : HSendFail(c)
    \/ \E c \in Handlers : HRecvExecLine(c)
    \/ \E c \in Handlers : HExecOk(c)
    \/ \E c \in Handlers : HExecParseFail(c)
    \/ \E c \in Handlers : HExecFail(c)
    \/ \E c \in Handlers : HEof(c)
    \/ \E c \in Handlers : HCancel(c)
    \/ \E c \in Handlers : HCancelLost(c)
    \/ \E c \in Handlers : HFinally(c)
    \/ \E c \in Handlers : ExecRead(c)
    \/ \E c \in Handlers : ExecBootDone(c)
    \/ \E c \in Handlers : ExecResyncDone(c)
    \/ \E c \in Handlers : ExecReturn(c)
    \/ \E c \in Handlers : ExecTimeout(c)
    \/ \E c \in Handlers : ExecIOError(c)
    \/ WriterStep

SpecExecLine == InitHandler /\ [][ExecLineNext]_vars

\* hub.add(ws) or hub.remove(ws) of a handler finds the hub lock taken by a
\* broadcast: the handler waits for it
HHubWait(c) ==
    /\ hpc[c] \in {"new", "finally"}
    /\ hpc[c] = "new" => serving
    /\ ~HubLockFree(hub_lock, hub_waiters)
    /\ hub_waiters' = Append(hub_waiters, c)
    /\ hpc' = [hpc EXCEPT ![c] = IF hpc[c] = "new" THEN "add_wait" ELSE "remove_wait"]
    /\ UNCHANGED <<pureVars, mshVars, auditVars, changedVars, loopVars, mainVars, hub_clients,
                   hub_lock, hframe, hreply, hsent, hnframes, h_frames, h_sess, h_recv,
                   s_pc, s_recv, s_from, s_mark, b_pc, b_id, b_name, b_S, b_visited,
                   b_dead, b_last>>

\* the waiting hub.add(ws) was given the lock: the client is added, the lock
\* released, and the handler goes on to audit connect and exec("getall")
HAddAcquired(c) ==
    /\ hpc[c] = "add_wait"
    /\ hub_lock = c
    /\ hub_clients' = AddSink(hub_clients, c)
    /\ hub_lock' = HubReleased(hub_waiters).lock
    /\ hub_waiters' = HubReleased(hub_waiters).waiters
    /\ audit_log("connect", c, <<>>, FALSE, NoVerdict)
    /\ ExecCall(c, GETALL)
    /\ hpc' = [hpc EXCEPT ![c] = "greet_exec"]
    /\ UNCHANGED <<pureVars, changedVars, loopVars, mainVars, hframe, hreply, hsent,
                   hnframes, h_frames, h_sess, h_recv, s_pc, s_recv, s_from, s_mark,
                   b_pc, b_id, b_name, b_S, b_visited, b_dead, b_last>>

\* the waiting hub.remove(ws) was given the lock: the rest of the finally block
HRemoveAcquired(c) ==
    /\ hpc[c] = "remove_wait"
    /\ hub_lock = c
    /\ hub_clients' = RemoveSink(hub_clients, c)
    /\ hub_lock' = HubReleased(hub_waiters).lock
    /\ hub_waiters' = HubReleased(hub_waiters).waiters
    /\ audit_log("disconnect", c, <<>>, FALSE, NoVerdict)
    /\ hpc' = [hpc EXCEPT ![c] = "exited"]
    /\ UNCHANGED <<pureVars, mshVars, changedVars, loopVars, mainVars, hframe, hreply,
                   hsent, hnframes, h_frames, h_sess, h_recv, s_pc, s_recv, s_from,
                   s_mark, b_pc, b_id, b_name, b_S, b_visited, b_dead, b_last>>

\* the handler task is cancelled while it waits for the hub lock: it stops
\* waiting (a lock it was just given goes to the next waiter) and is left
HCancelWait(c) ==
    /\ hpc[c] \in {"add_wait", "remove_wait"}
    /\ IF hub_lock = c
       THEN /\ hub_lock' = HubReleased(hub_waiters).lock
            /\ hub_waiters' = HubReleased(hub_waiters).waiters
       ELSE /\ hub_waiters' = SelectSeq(hub_waiters, LAMBDA u : u # c)
            /\ UNCHANGED hub_lock
    /\ hpc' = [hpc EXCEPT ![c] = "exited"]
    /\ UNCHANGED <<pureVars, mshVars, auditVars, changedVars, loopVars, mainVars, hub_clients,
                   hframe, hreply, hsent, hnframes, h_frames, h_sess, h_recv,
                   s_pc, s_recv, s_from, s_mark, b_pc, b_id, b_name, b_S, b_visited,
                   b_dead, b_last>>

\* the client sends exec frames with the cmd "status"
HRecvStatus(c) == RecvExecOf(c, MaxFrames, {STATUS})

\* the server but for the frames its clients send: the handlers, the polling
\* loops, the session, the hub, the audit writer and the end of _amain; what
\* the device has sent arrives in one piece
ServerSteps ==
    \/ \E c \in Handlers : HConnect(c)
    \/ \E c \in Handlers : HHubWait(c)
    \/ \E c \in Handlers : HAddAcquired(c)
    \/ \E c \in Handlers : HGreetOk(c)
    \/ \E c \in Handlers : HGreetFail(c)
    \/ \E c \in Handlers : HSendOk(c)
    \/ \E c \in Handlers : HSendFail(c)
    \/ \E c \in Handlers : HExecOk(c)
    \/ \E c \in Handlers : HExecParseFail(c)
    \/ \E c \in Handlers : HExecFail(c)
    \/ \E c \in Handlers : HEof(c)
    \/ \E c \in Handlers : HCancel(c)
    \/ \E c \in Handlers : HCancelLost(c)
    \/ \E c \in Handlers : HCancelWait(c)
    \/ \E c \in Handlers : HFinally(c)
    \/ \E c \in Handlers : HRemoveAcquired(c)
    \/ LoopExec(Poll)
    \/ LoopExecOk
    \/ LoopExecFail(Poll)
    \/ LoopSleep(Poll)
    \/ BAcquired(Poll)
    \/ \E c \in Handlers : BSendOk(c)
    \/ \E c \in Handlers : BSendFail(c)
    \/ BReturn(Poll)
    \/ \E t \in HandlerTasks : Running(t) /\ ExecAcquired(t)
    \/ \E t \in HandlerTasks : Running(t) /\ ExecReadAll(t)
    \/ \E t \in HandlerTasks : Running(t) /\ ExecBootDone(t)
    \/ \E t \in HandlerTasks : Running(t) /\ ExecResyncDone(t)
    \/ \E t \in HandlerTasks : Running(t) /\ ExecReturn(t)
    \/ \E t \in HandlerTasks : Running(t) /\ ExecTimeout(t)
    \/ \E t \in HandlerTasks : Running(t) /\ ExecIOError(t)
    \/ WriterStep
    \/ ShutdownCancel
    \/ \E t \in LoopTasks : LoopCancelled(t)
    \/ \E t \in LoopTasks : LoopCancelLost(t)
    \/ ShutdownStop
    \/ AuditStopPut
    \/ AuditStopJoin

\* the server whose clients send frames of every kind
WsNext ==
    \/ ServerSteps
    \/ \E c \in Handlers : HRecvOther(c)
    \/ \E c \in Handlers : HRecvExec(c)

\* the audit queue holds one event, so that events are dropped, and the
\* device writes the prompt "msh >"
InitWs ==
    /\ AuditStarted(1, 1)
    /\ WsInit
    /\ HubInit
    /\ MshStart(MaxServerExecs)
    /\ dev_prompt = PROMPT_TEXT
    /\ PureIdle

SpecWs == InitWs /\ [][WsNext]_vars

\* the server whose clients send exec frames with the cmd "status"
ServerNext ==
    \/ ServerSteps
    \/ \E c \in Handlers : HRecvStatus(c)

InitServer ==
    /\ AuditStarted(MaxQueue, 1)
    /\ WsInit
    /\ HubInit
    /\ MshStart(MaxServerExecs)
    /\ PureIdle

SpecServer == InitServer /\ [][ServerNext]_vars

\* ws_handler run with the audit sink started (main.py) or never initialised
\* (ws_handler called without init_audit, as tests/test_ws.py does)
InitHandlerAnyAudit ==
    /\ AuditStarted(MaxQueue, 1) \/ AuditInit(FALSE, 1, 1)
    /\ WsInit
    /\ HubInit
    /\ MshInit
    /\ PureIdle

SpecHandlerAnyAudit == InitHandlerAnyAudit /\ [][HandlerNext]_vars

(***************************************************************************)
(* The logger taken alone: start, log calls at any time, stop (on a        *)
(* started logger, as in the usage of the class and in main.py), start     *)
(* again.                                                                  *)
(***************************************************************************)
AuditLogCall ==
    /\ UNCHANGED nonAuditVars
    /\ Len(a_log) < MaxEvents
    /\ Log("event", NoTask, <<>>, FALSE, NoVerdict)

AuditNext ==
    \/ AuditStart
    \/ AuditLogCall
    \/ WriterStep
    \/ AuditStopCall
    \/ AuditStopPut
    \/ AuditStopJoin

AuditIdle == AuditInit(FALSE, 1, 1)

InitAudit ==
    /\ \E mq \in 1 .. MaxQueue, fe \in 1 .. MaxFlush : AuditInit(TRUE, mq, fe)
    /\ MshIdle
    /\ PureIdle
    /\ WsInit
    /\ HubInit

SpecAudit == InitAudit /\ [][AuditNext]_vars

(***************************************************************************)
(* changed() taken alone: any sequence of calls with parsed statuses.      *)
(***************************************************************************)
ChangedCall ==
    /\ \E parsed \in StatusRecords : changed(parsed)
    /\ UNCHANGED <<pureVars, mshVars, auditVars, wsVars, fanoutVars, loopVars>>

InitChanged == HubInit /\ WsInit /\ MshIdle /\ PureIdle /\ AuditIdle

SpecChanged == InitChanged /\ [][ChangedCall]_vars

InitHub == HubInit /\ WsInit /\ MshIdle /\ PureIdle /\ AuditIdle

SpecHub == InitHub /\ [][HubNext]_vars

InitPoll == HubInit /\ WsInit /\ MshInit /\ PureIdle /\ AuditIdle

SpecPoll == InitPoll /\ [][PollNext]_vars

\* every task that can take a step is scheduled and every send comes to an end
SpecPollFair ==
    /\ SpecPoll
    /\ WF_vars(LoopExec(Poll)) /\ WF_vars(LoopExecOk) /\ WF_vars(LoopExecFail(Poll))
    /\ WF_vars(LoopSleep(Poll))
    /\ WF_vars(ExecBootDone(Poll)) /\ WF_vars(ExecResyncDone(Poll))
    /\ WF_vars(ExecReturn(Poll)) /\ WF_vars(ExecTimeout(Poll))
    /\ WF_vars(BAcquired(Poll)) /\ WF_vars(BReturn(Poll))
    /\ WF_vars(\E s \in Sinks : BSendOk(s) \/ BSendFail(s))
    /\ \A s \in Sinks : WF_vars(SinkAcquired(s))

InitPolicy == PolicyInit /\ ParseIdle /\ MshIdle /\ AuditIdle /\ WsInit /\ HubInit
SpecPolicy == InitPolicy /\ [][PolicyCall]_vars

InitGetAll == GetAllInit /\ StatusIdle /\ ProcessIdle /\ PolicyIdle /\ MshIdle /\ AuditIdle /\ WsInit /\ HubInit
SpecGetAll == InitGetAll /\ [][GetAllCall]_vars

InitProcess ==
    ProcessInit /\ GetAllIdle /\ StatusIdle /\ PolicyIdle /\ MshIdle /\ AuditIdle /\ WsInit /\ HubInit

SpecProcess == InitProcess /\ [][ProcessCall]_vars

InitStatus == StatusInit /\ GetAllIdle /\ ProcessIdle /\ PolicyIdle /\ MshIdle /\ AuditIdle /\ WsInit /\ HubInit
SpecStatus == InitStatus /\ [][StatusCall]_vars

InitMsh == MshInit /\ PureIdle /\ AuditIdle /\ WsInit /\ HubInit
SpecMsh == InitMsh /\ [][MshNext]_vars

\* the callers making MaxFairExecs calls in all
FairCallerCall(t) == nexec < MaxFairExecs /\ CallerCall(t)

\* a step task t takes when the event loop runs it: it takes the lock it
\* was given, goes on after a read that saw a prompt or whose time is up,
\* or takes the result of its exec
TaskStep(t) ==
    \/ CallerCollect(t)
    \/ ExecAcquired(t)
    \/ ExecBootDone(t)
    \/ ExecResyncDone(t)
    \/ ExecReturn(t)
    \/ ExecTimeout(t)

MshFairNext ==
    \/ \E t \in Callers : FairCallerCall(t)
    \/ \E t \in Tasks : TaskStep(t)
    \/ \E t \in Tasks : ExecRead(t)
    \/ \E t \in Tasks : ExecIOError(t)

\* The event loop runs every task that can run and the clock of a pending
\* read runs out.
SpecMshFair ==
    /\ InitMsh
    /\ [][MshFairNext]_vars
    /\ \A t \in Tasks : WF_vars(TaskStep(t))

(***************************************************************************)
(* C1: at most one exec is inside the locked section at any moment, and    *)
(* the device sees the execs one after the other: the reads and writes of  *)
(* one exec are never interleaved with those of another.                   *)
(***************************************************************************)
C1_SerialExec ==
    /\ \A t, u \in Tasks : (t # u) => ~(InSection(t) /\ InSection(u))
    /\ \A t \in Tasks : InSection(t) => msh_lock = t
    /\ \A i, j \in DOMAIN iolog : (i # j) => iolog[i] # iolog[j]

C1_Witness ==
    \E t, u \in Tasks :
        /\ epc[t] = "cmd_r"
        /\ epc[u] = "wait"
        /\ Len(iolog) >= 2

(***************************************************************************)
(* C4: an exec that succeeds returns the output of its own command,        *)
(* followed by the prompt that ends it, and nothing else (also after an    *)
(* exec that failed).                                                      *)
(***************************************************************************)
C4_ReturnsOwnOutput ==
    \A t \in Tasks :
        epc[t] = "ret" => eret[t] = <<Out(ecw[t]), DevPrompt(ecw[t])>>

(***************************************************************************)
(* C5: an exec that failed does not hold the lock, and every exec that     *)
(* waits for the lock eventually gets it and runs.                         *)
(***************************************************************************)
C5_FailureReleasesLock ==
    /\ [](\A t \in Tasks : epc[t] = "raised" => msh_lock # t)
    /\ \A t \in Tasks : (epc[t] = "wait") ~> InSection(t)

C5_Witness ==
    \E t, u \in Tasks :
        /\ epc[t] = "raised"
        /\ InSection(u)
        /\ eid[u] > eid[t]

(***************************************************************************)
(* C3: every non-empty command that contains a newline, a carriage return  *)
(* or a semicolon at any position is rejected.                             *)
(***************************************************************************)
C3_AnyPositionRejected ==
    (p_pc = "done" /\ p_cmd # <<>>
        /\ (Contains(p_cmd, "\n") \/ Contains(p_cmd, "\r") \/ Contains(p_cmd, ";")))
    => ~p_res.ok

(***************************************************************************)
(* C7: after stop() has returned, every event that log() enqueued before   *)
(* stop() was called is a line of the audit file, covered by an fsync.     *)
(***************************************************************************)
C7_StopDrains ==
    a_stop = "returned" =>
        /\ a_at_stop.enq <= a_synced
        /\ a_synced <= Len(a_file)
        /\ \A i \in 1 .. a_at_stop.enq :
              Cardinality({j \in 1 .. a_synced : a_file[j] = a_enq[i]}) = 1

C7_Witness ==
    /\ a_stop = "returned"
    /\ a_at_stop.enq >= 2
    /\ a_at_stop.queued >= 2
    /\ a_flush_every = 2

(***************************************************************************)
(* C9: log() can always be called and returns; the queue never holds more  *)
(* than max_queue items, and the drop counter is the number of log() calls *)
(* whose event was not enqueued.                                           *)
(***************************************************************************)
C9_LogNeverBlocks ==
    /\ Len(a_q) <= a_max_queue
    /\ a_dropped = Len(a_log) - Len(a_enq)
    /\ (Len(a_log) < MaxEvents) => ENABLED AuditLogCall

C9_Witness ==
    /\ a_dropped >= 1
    /\ Len(a_q) = a_max_queue
    /\ Len(a_log) - Len(a_enq) >= 1

(***************************************************************************)
(* C10: the lines of the audit file are the events log() enqueued, in the  *)
(* order of enqueuing and each at most once (the file is a prefix of the   *)
(* sequence of enqueued events); nothing else is ever written.             *)
(***************************************************************************)
C10_FileInEnqueueOrder ==
    /\ Len(a_file) <= Len(a_enq)
    /\ a_file = SubSeq(a_enq, 1, Len(a_file))
    /\ \A i, j \in DOMAIN a_file : (i # j) => a_file[i] # a_file[j]

C10_Witness ==
    /\ a_writer = "exited"
    /\ a_drained >= 1
    /\ Len(a_file) >= 3
    /\ a_dropped >= 1

(***************************************************************************)
(* C2: the session's exec is called for an exec frame only if is_allowed   *)
(* returned true for its cmd. A rejected frame is answered with a result   *)
(* with ok false, the error "Command not allowed by policy" and the policy *)
(* reason; it causes no session call, and no line other than a resync      *)
(* newline, the greeting's getall, the status of poll_status_loop or the   *)
(* trimmed cmd of an allowed frame is ever written to the device.          *)
(***************************************************************************)
IsAllowedFrame(f) == is_allowed(f.cmd).ok

C2_PolicyGate ==
    /\ h_sess = SelectSeq(h_frames, IsAllowedFrame)
    /\ \A c \in Handlers :
          (hframe[c].type = "exec" /\ ~is_allowed(hframe[c].cmd).ok) =>
              /\ hpc[c] = "send"
              /\ hreply[c] = Rejected(hframe[c].id, is_allowed(hframe[c].cmd))
              /\ hreply[c].ok = FALSE
              /\ hreply[c].reason.text # ""
              /\ epc[c] = "idle"
    /\ \A i \in DOMAIN wlog :
          \/ wlog[i].line \in {NL, GETALL \o NL, STATUS \o NL}
          \/ \E j \in DOMAIN h_sess : wlog[i].line = Strip(h_sess[j].cmd) \o NL

C2_Witness ==
    \E c \in Handlers :
        /\ \E i \in DOMAIN hsent[c] : hsent[c][i] = Rejected(1, is_allowed(REBOOT))
        /\ \E i \in DOMAIN h_frames : h_frames[i] = [c |-> c, cmd |-> REBOOT]
        /\ h_sess = <<>>
        /\ wlog # <<>>

(***************************************************************************)
(* C6: a handler that has ended is no longer in the hub's subscriber set   *)
(* and its disconnect event was given to the audit sink.                   *)
(***************************************************************************)
C6_ExitDeregisters ==
    \A c \in Handlers :
        hpc[c] = "exited" =>
            /\ c \notin hub_clients
            /\ \E i \in DOMAIN a_log :
                  a_log[i].kind = "disconnect" /\ a_log[i].who = c

(***************************************************************************)
(* C8 as stated: once the audit sink has been stopped, the file holds one  *)
(* exec line for each exec frame the handlers received.                    *)
(***************************************************************************)
IsExecEvent(e) == e.kind = "exec"
ExecAttempts(events) ==
    LET ex == SelectSeq(events, IsExecEvent)
    IN  [i \in DOMAIN ex |-> [c |-> ex[i].who, cmd |-> ex[i].cmd]]

C8_EveryAttemptInFile ==
    a_stop = "returned" => ExecAttempts(SubSeq(a_file, 1, a_synced)) = h_frames

(***************************************************************************)
(* C8, amended: every exec frame, allowed or rejected, causes exactly one  *)
(* log() call with an exec event carrying its cmd and the policy verdict;  *)
(* once the audit sink has been stopped, the exec lines of the file are    *)
(* the exec events that log() enqueued, and the attempts that are missing  *)
(* were dropped on a full queue and are counted by the drop counter.       *)
(***************************************************************************)
C8_AttemptsLoggedOnce ==
    /\ ExecAttempts(a_log) = h_frames
    /\ \A i \in DOMAIN a_log :
          IsExecEvent(a_log[i]) => a_log[i].allowed = is_allowed(a_log[i].cmd).ok
    /\ a_stop = "returned" =>
          /\ a_synced = Len(a_file)
          /\ ExecAttempts(a_file) = ExecAttempts(a_enq)
          /\ Len(h_frames) - Len(ExecAttempts(a_file)) <= a_dropped

C8_Witness ==
    /\ a_stop = "returned"
    /\ \E i \in DOMAIN h_frames : ~IsAllowedFrame(h_frames[i])
    /\ ExecAttempts(a_file) = h_frames
    /\ a_dropped >= 1

(***************************************************************************)
(* The decision list of the policy as the specification words it, applied  *)
(* to a text t: the first rule that matches decides.                       *)
(***************************************************************************)
WhitespaceOnly(t) == \A i \in DOMAIN t : t[i] \in Whitespace

\* the first whitespace-delimited token of a text that is not whitespace-only
FirstToken(t) ==
    LET a == CHOOSE i \in DOMAIN t :
                 t[i] \notin Whitespace /\ \A j \in 1 .. i - 1 : t[j] \in Whitespace
        b == CHOOSE i \in a .. Len(t) :
                 /\ \A j \in a .. i : t[j] \notin Whitespace
                 /\ (i = Len(t) \/ t[i + 1] \in Whitespace)
    IN  SubSeq(t, a, b)

\* a second whitespace-delimited token exists
HasArgument(t) ==
    \E i, j \in DOMAIN t :
        i < j /\ t[i] \in Whitespace /\ t[j] \notin Whitespace
            /\ \E k \in 1 .. i - 1 : t[k] \notin Whitespace

ReferenceDecision(t) ==
    CASE WhitespaceOnly(t) -> [ok |-> FALSE, rule |-> "empty"]
      [] \E i \in DOMAIN t : t[i] \in {"\n", "\r"} -> [ok |-> FALSE, rule |-> "multiline"]
      [] \E i \in DOMAIN t : t[i] = ";" -> [ok |-> FALSE, rule |-> "semicolons"]
      [] OTHER ->
          LET verb == Lower(FirstToken(t)) IN
          CASE verb \in BLOCKED_VERBS -> [ok |-> FALSE, rule |-> "blocked"]
            [] verb \in SAFE_SETTERS_REQUIRE_PARAMS /\ ~HasArgument(t) ->
                  [ok |-> FALSE, rule |-> "missing parameters"]
            [] verb \in SAFE_SETTERS_REQUIRE_PARAMS -> [ok |-> TRUE, rule |-> "setter"]
            [] verb \in SAFE_GETTERS -> [ok |-> TRUE, rule |-> "getter"]
            [] OTHER -> [ok |-> FALSE, rule |-> "unknown/unaudited"]

\* the rule a verdict of is_allowed names in its reason
RuleOf(v) ==
    CASE v.text = "Empty command" -> "empty"
      [] v.text = "Multiline commands not allowed" -> "multiline"
      [] v.text = "Semicolons not allowed" -> "semicolons"
      [] v.text = "Blocked verb: " -> "blocked"
      [] v.text = "Missing parameters for setter: " -> "missing parameters"
      [] v.text = "Allowed setter-with-params" -> "setter"
      [] v.text = "Allowed getter" -> "getter"
      [] v.text = "Unknown/unaudited command: " -> "unknown/unaudited"
      [] OTHER -> "none"

(***************************************************************************)
(* C20: is_allowed(cmd) is the decision list applied to cmd.               *)
(***************************************************************************)
C20_DecisionList ==
    p_pc = "done" =>
        [ok |-> p_res.ok, rule |-> RuleOf(p_res)] = ReferenceDecision(p_cmd)

(***************************************************************************)
(* C14: changed(p) returns true iff the fingerprint of p differs from the  *)
(* cache, and replaces the cache exactly when it returns true; so it is    *)
(* true on the first call, false on a call that repeats the argument of    *)
(* the call before, and, from the second call on, true iff a key of core   *)
(* has another value than in the argument of the call before.              *)
(***************************************************************************)
C14_ChangedIffFingerprintDiffers ==
    /\ c_call = <<>> => last_fingerprint = <<>>
    /\ c_call # <<>> =>
          LET c == c_call[1] IN
          /\ c.ret = (Fingerprint(c.p) # c.before)
          /\ last_fingerprint = IF c.ret THEN Fingerprint(c.p) ELSE c.before
          /\ c_prev = <<>> => (c.before = <<>> /\ c.ret)
          /\ c_prev # <<>> =>
                /\ c.p = c_prev[1] => ~c.ret
                /\ c.ret = (\E i \in DOMAIN CoreKeys :
                               Get(c.p, CoreKeys[i]) # Get(c_prev[1], CoreKeys[i]))

C14_Witness ==
    /\ c_call # <<>>
    /\ c_prev # <<>>
    /\ ~c_call[1].ret
    /\ c_call[1].p # c_prev[1]
    /\ "work_state" \in DOMAIN c_call[1].p

(***************************************************************************)
(* C11: while a broadcast sends, it holds the hub lock and the subscriber  *)
(* set is the set S it began with. When it has returned, the for loop has  *)
(* come to every sink of S once, every sink whose send succeeded has got   *)
(* the message exactly once and is in the set left behind, every sink      *)
(* whose send failed has not got it and is not in the set left behind.     *)
(***************************************************************************)
Received(s, id) == {i \in DOMAIN s_recv[s] : s_recv[s][i].id = id}

C11_BroadcastFanOut ==
    /\ \A t \in LoopTasks :
          b_pc[t] = "send" =>
             /\ hub_lock = t
             /\ hub_clients = b_S
             /\ b_dead \subseteq Range(b_visited)
             /\ Range(b_visited) \subseteq b_S
    /\ b_last # <<>> =>
          LET b == b_last[1] IN
          /\ Range(b.order) = b.S
          /\ Len(b.order) = Cardinality(b.S)
          /\ b.dead \subseteq b.S
          /\ b.after = b.S \ b.dead
          /\ \A s \in b.S \ b.dead : Cardinality(Received(s, b.id)) = 1
          /\ \A s \in b.dead : Received(s, b.id) = {}

C11_Witness ==
    /\ b_last # <<>>
    /\ Len(b_last[1].order) = 2
    /\ b_last[1].order[1] \in b_last[1].dead
    /\ b_last[1].order[2] \notin b_last[1].dead
    /\ b_last[1].after = {b_last[1].order[2]}
    /\ \A t \in LoopTasks : b_pc[t] = "idle"

(***************************************************************************)
(* C12 as stated: a sink does not get the broadcast that was in progress   *)
(* when it called add(), and every broadcast it gets was called after its  *)
(* add() had returned.                                                     *)
(***************************************************************************)
C12_OnlyBroadcastsCalledAfterAdd ==
    \A s \in Sinks :
        /\ (s_pc[s] \in {"add_wait", "in"} /\ s_mark[s] # 0) => Received(s, s_mark[s]) = {}
        /\ \A i \in DOMAIN s_recv[s] : s_recv[s][i].id > s_recv[s][i].from.called

(***************************************************************************)
(* C12 amended: a sink gets a broadcast only after its add() has returned, *)
(* and only broadcasts that took the hub lock after that (a broadcast      *)
(* called while add() waited for the lock is among them); it does not get  *)
(* the broadcast that was in progress when it called add().                *)
(***************************************************************************)
C12_AddedDuringBroadcast ==
    \A s \in Sinks :
        /\ \A i \in DOMAIN s_recv[s] :
              /\ s_recv[s][i].pc \notin {"out", "add_wait"}
              /\ s_recv[s][i].id > s_recv[s][i].from.taken
        /\ (s_pc[s] \in {"add_wait", "in"} /\ s_mark[s] # 0) => Received(s, s_mark[s]) = {}
        /\ s_pc[s] \in {"out", "add_wait"} => s \notin hub_clients

C12_Witness ==
    \E s \in Sinks :
        /\ s_pc[s] = "in"
        /\ s_mark[s] # 0
        /\ b_last # <<>>
        /\ Received(s, s_mark[s]) = {}
        /\ \E i \in DOMAIN s_recv[s] :
              /\ s_recv[s][i].id = s_mark[s] + 1
              /\ s_recv[s][i].id = s_recv[s][i].from.called

(***************************************************************************)
(* C13: a sink gets a broadcast at most once, also when it calls remove()  *)
(* while the broadcast is in progress; once remove() has returned it is    *)
(* not in the subscriber set and gets no broadcast any more.               *)
(***************************************************************************)
C13_RemovedDuringBroadcast ==
    \A s \in Sinks :
        /\ \A i, j \in DOMAIN s_recv[s] : s_recv[s][i].id = s_recv[s][j].id => i = j
        /\ \A i \in DOMAIN s_recv[s] : s_recv[s][i].pc # "removed"
        /\ s_pc[s] = "removed" =>
              /\ s \notin hub_clients
              /\ s \notin Range(hub_waiters)
              /\ \A i \in DOMAIN s_recv[s] : s_recv[s][i].id <= b_id

C13_Witness ==
    \E s \in Sinks :
        /\ s_pc[s] = "removed"
        /\ s_mark[s] # 0
        /\ Received(s, s_mark[s]) # {}
        /\ b_last # <<>>
        /\ b_last[1].id > s_mark[s]
        /\ b_last[1].S # {}

(***************************************************************************)
(* C15: a poll iteration whose exec and parse succeeded broadcasts one     *)
(* heartbeat first; it broadcasts a status after it, carrying the record   *)
(* just parsed, iff changed(parsed) returned true, that is iff the         *)
(* fingerprint of the record differs from the cache the iteration began    *)
(* with; it broadcasts no status_error.                                    *)
(***************************************************************************)
C15_HeartbeatThenStatus ==
    /\ \A i \in DOMAIN l_log :
          l_log[i].ok =>
             /\ l_log[i].events \in {<<"heartbeat">>, <<"heartbeat", "status">>}
             /\ l_log[i].chg = <<TRUE>> <=> l_log[i].events = <<"heartbeat", "status">>
             /\ l_log[i].chg = <<>> => i = Len(l_log) /\ l_pc[Poll] = "hb"
             /\ i < Len(l_log) =>
                   (l_log[i].chg = <<TRUE>> <=> l_log[i + 1].fp0 # l_log[i].fp0)
             /\ (i = Len(l_log) /\ l_log[i].chg # <<>>) =>
                   (l_log[i].chg = <<TRUE>> <=> last_fingerprint # l_log[i].fp0)
    /\ l_pc[Poll] = "hb" => b_name[Poll] = "heartbeat"
    /\ l_pc[Poll] = "status" =>
          /\ b_name[Poll] = "status"
          /\ l_parsed \in StatusRecords
          /\ Fingerprint(l_parsed) = last_fingerprint

C15_Witness ==
    /\ Len(l_log) = 2
    /\ l_log[1].ok /\ l_log[1].events = <<"heartbeat", "status">>
    /\ l_log[2].ok /\ l_log[2].events = <<"heartbeat">> /\ l_log[2].chg = <<FALSE>>
    /\ l_pc[Poll] = "sleep"

(***************************************************************************)
(* C16: a poll iteration whose exec raised broadcasts one status_error and *)
(* nothing else, calls changed not at all and leaves the fingerprint cache *)
(* as it was; the loop never ends, and from the status_error broadcast it  *)
(* comes to the top of its next iteration.                                 *)
(***************************************************************************)
C16_FailedIteration ==
    /\ \A i \in DOMAIN l_log :
          ~l_log[i].ok =>
             /\ l_log[i].events = <<"status_error">>
             /\ l_log[i].chg = <<>>
             /\ i < Len(l_log) => l_log[i + 1].fp0 = l_log[i].fp0
             /\ i = Len(l_log) => last_fingerprint = l_log[i].fp0
    /\ l_pc[Poll] \in {"top", "exec", "hb", "status", "err", "sleep"}
    /\ l_pc[Poll] = "err" => b_name[Poll] = "status_error" /\ ~l_log[Len(l_log)].ok

C16_ExecFailureContinues ==
    /\ []C16_FailedIteration
    /\ (l_pc[Poll] = "err") ~> (l_pc[Poll] = "top")

C16_Witness ==
    /\ Len(l_log) = 2
    /\ ~l_log[1].ok
    /\ l_log[2].ok /\ l_log[2].events = <<"heartbeat", "status">>
    /\ l_pc[Poll] = "sleep"

(***************************************************************************)
(* C17: while the handler sends the error result of an exec frame, the     *)
(* result carries the id of that frame, ok = false and the error text, the *)
(* client is in the hub's set and no exec of the handler is under way;     *)
(* every error result sent carries the id of the allowed exec frame it     *)
(* answers; and when it has been sent the handler is back at receiving,    *)
(* the client still in the hub's set, able to take the next exec frame.    *)
(***************************************************************************)
IsErrorResult(m) == m.type = "result" /\ ~m.ok /\ m.reason = NoVerdict

C17_ExecErrorReply ==
    \A c \in Handlers :
        /\ hpc[c] = "err_send" =>
              /\ hframe[c].type = "exec"
              /\ is_allowed(hframe[c].cmd).ok
              /\ hframe[c] = h_recv[c][Len(h_recv[c])]
              /\ hreply[c] = ResultError(hframe[c].id)
              /\ hreply[c].id = hframe[c].id
              /\ ~hreply[c].ok
              /\ hreply[c].error # ""
              /\ c \in hub_clients
              /\ epc[c] = "idle"
              /\ msh_lock # c
        /\ \A i \in DOMAIN hsent[c] :
              IsErrorResult(hsent[c][i]) =>
                 /\ i > 1
                 /\ h_recv[c][i - 1].type = "exec"
                 /\ is_allowed(h_recv[c][i - 1].cmd).ok
                 /\ hsent[c][i].id = h_recv[c][i - 1].id
        /\ (hpc[c] = "recv" /\ hsent[c] # <<>> /\ IsErrorResult(hsent[c][Len(hsent[c])])) =>
              /\ c \in hub_clients
              /\ epc[c] = "idle"
              /\ msh_lock # c
              /\ c \notin Range(msh_waiters)

C17_Witness ==
    \E c \in Handlers :
        /\ Len(hsent[c]) = 3
        /\ IsErrorResult(hsent[c][2])
        /\ hsent[c][2].id = 1
        /\ hsent[c][3].type = "result" /\ hsent[c][3].ok /\ hsent[c][3].id = 2
        /\ c \in hub_clients
        /\ hpc[c] = "recv"

(***************************************************************************)
(* C18: the messages sent to a client after the greeting answer the frames *)
(* received from it one for one and in order: an ack for a subscribe       *)
(* frame, a result with the frame's id for an exec frame, an error naming  *)
(* the type for any other frame; only the frame being handled, or the      *)
(* frame during which the handler ended, has no reply yet.                 *)
(***************************************************************************)
ReplyTo(f, m) ==
    CASE f.type = "subscribe" -> m = SubscribeAck
      [] f.type = "exec" -> m.type = "result" /\ m.id = f.id
      [] OTHER -> m = UnknownType(f.type) /\ m.name = f.type

Replies(c) == IF hsent[c] = <<>> THEN <<>> ELSE Tail(hsent[c])

C18_RepliesInOrder ==
    \A c \in Handlers :
        /\ Len(h_recv[c]) = hnframes[c]
        /\ Len(Replies(c)) <= Len(h_recv[c])
        /\ Len(h_recv[c]) <= Len(Replies(c)) + 1
        /\ \A i \in DOMAIN Replies(c) : ReplyTo(h_recv[c][i], Replies(c)[i])
        /\ hsent[c] # <<>> => hsent[c][1].type = "event"
        /\ hpc[c] = "recv" => Len(Replies(c)) = Len(h_recv[c])
        /\ hpc[c] \in {"send", "res_send", "err_send"} =>
              /\ Len(h_recv[c]) = Len(Replies(c)) + 1
              /\ ReplyTo(h_recv[c][Len(h_recv[c])], hreply[c])

C18_Witness ==
    \E c \in Handlers :
        /\ hpc[c] = "recv"
        /\ Len(h_recv[c]) = 2
        /\ h_recv[c][1].type = "exec" /\ h_recv[c][2].type = "subscribe"
        /\ Len(hsent[c]) = 3
        /\ hsent[c][2].type = "result" /\ hsent[c][2].ok /\ hsent[c][2].id = 1
        /\ hsent[c][3] = SubscribeAck

(***************************************************************************)
(* C19: the exec events given to the audit sink for a client are, one for  *)
(* one and in order, the exec frames received from it, each with the cmd   *)
(* of the frame, the verdict of is_allowed on it and its reason, for       *)
(* allowed and for rejected commands; the event of a frame is given to the *)
(* sink no later than the frame's command is handed to the session, and    *)
(* before the result of the frame is sent.                                 *)
(***************************************************************************)
ExecEventsOf(c) == SelectSeq(a_log, LAMBDA e : e.kind = "exec" /\ e.who = c)
ExecFramesOf(c) == SelectSeq(h_recv[c], LAMBDA f : f.type = "exec")
ResultsTo(c) == SelectSeq(hsent[c], LAMBDA m : m.type = "result")

C19_ExecEventPerFrame ==
    \A c \in Handlers :
        /\ Len(ExecEventsOf(c)) = Len(ExecFramesOf(c))
        /\ \A i \in DOMAIN ExecFramesOf(c) :
              /\ ExecEventsOf(c)[i].cmd = ExecFramesOf(c)[i].cmd
              /\ ExecEventsOf(c)[i].allowed = is_allowed(ExecFramesOf(c)[i].cmd).ok
              /\ ExecEventsOf(c)[i].reason = is_allowed(ExecFramesOf(c)[i].cmd)

C19_EventFirst ==
    \A c \in Handlers :
        /\ (Len(h_sess') > Len(h_sess) /\ h_sess'[Len(h_sess')].c = c) =>
              /\ ExecEventsOf(c)' # <<>>
              /\ ExecEventsOf(c)'[Len(ExecEventsOf(c)')].cmd = h_sess'[Len(h_sess')].cmd
              /\ ExecEventsOf(c)'[Len(ExecEventsOf(c)')].allowed
        /\ Len(ResultsTo(c)') > Len(ResultsTo(c)) =>
              Len(ExecEventsOf(c)) >= Len(ResultsTo(c)')

C19_AuditBeforeAction == []C19_ExecEventPerFrame /\ [][C19_EventFirst]_vars

C19_Witness ==
    \E c \in Handlers :
        /\ Len(ExecEventsOf(c)) = 2
        /\ ~ExecEventsOf(c)[1].allowed /\ ExecEventsOf(c)[1].reason.text # ""
        /\ ExecEventsOf(c)[2].allowed
        /\ Len(ResultsTo(c)) = 2

(***************************************************************************)
(* C21 as stated: the pair returned for a command is the value of          *)
(* is_allowed on that command, and its reason is a non-empty string iff    *)
(* its first component is false.                                           *)
(***************************************************************************)
ReasonOf(v) == <<v.text>> \o v.verb

C21_ReasonIffRejected ==
    p_pc = "done" =>
        /\ p_res = is_allowed(p_cmd)
        /\ (p_res.text # "" <=> ~p_res.ok)

(***************************************************************************)
(* C21 amended: the pair returned for a command is the value of is_allowed *)
(* on that command, and its reason is always a non-empty string: one of    *)
(* the two "Allowed ..." texts when the first component is true, one of    *)
(* the rejection texts (followed by the verb for blocked, missing          *)
(* parameters and unknown) when it is false.                               *)
(***************************************************************************)
AllowedTexts == {"Allowed getter", "Allowed setter-with-params"}
RejectedTexts == {"Empty command", "Multiline commands not allowed", "Semicolons not allowed"}
RejectedVerbTexts ==
    {"Blocked verb: ", "Missing parameters for setter: ", "Unknown/unaudited command: "}

C21_ReasonAlwaysGiven ==
    p_pc = "done" =>
        /\ p_res = is_allowed(p_cmd)
        /\ p_res.text # ""
        /\ p_res.ok => p_res.text \in AllowedTexts /\ p_res.verb = <<>>
        /\ ~p_res.ok =>
              \/ p_res.text \in RejectedTexts /\ p_res.verb = <<>>
              \/ p_res.text \in RejectedVerbTexts /\ p_res.verb = normalize_verb(p_cmd)
                    /\ p_res.verb # <<>>

C21_Witness ==
    /\ p_pc = "done"
    /\ p_res.ok
    /\ p_res.text = "Allowed setter-with-params"
    /\ ReasonOf(p_res) # <<"">>

(***************************************************************************)
(* C22: BLOCKED_VERBS, SAFE_GETTERS and SAFE_SETTERS_REQUIRE_PARAMS are    *)
(* pairwise disjoint, and a command that is one line without ';' whose     *)
(* verb is in SAFE_GETTERS is allowed, with and without arguments.         *)
(***************************************************************************)
OneLine(cmd) ==
    /\ Strip(cmd) # <<>>
    /\ ~Contains(Strip(cmd), "\n")
    /\ ~Contains(Strip(cmd), "\r")
    /\ ~Contains(Strip(cmd), ";")

C22_GettersDisjointAndAllowed ==
    /\ BLOCKED_VERBS \cap SAFE_GETTERS = {}
    /\ BLOCKED_VERBS \cap SAFE_SETTERS_REQUIRE_PARAMS = {}
    /\ SAFE_GETTERS \cap SAFE_SETTERS_REQUIRE_PARAMS = {}
    /\ (p_pc = "done" /\ OneLine(p_cmd) /\ normalize_verb(p_cmd) \in SAFE_GETTERS) => p_res.ok

(***************************************************************************)
(* C23: power, wave, headfre, headwide and feederoutspeed given without    *)
(* arguments are allowed, and headfre, headwide and feederoutspeed given   *)
(* with one argument are allowed.                                          *)
(***************************************************************************)
DualUseGetters ==
    { <<"p","o","w","e","r">>, <<"w","a","v","e">>, <<"h","e","a","d","f","r","e">>,
      <<"h","e","a","d","w","i","d","e">>,
      <<"f","e","e","d","e","r","o","u","t","s","p","e","e","d">> }
DualUseSetters ==
    { <<"h","e","a","d","f","r","e">>, <<"h","e","a","d","w","i","d","e">>,
      <<"f","e","e","d","e","r","o","u","t","s","p","e","e","d">> }

C23_DualUseAllowed ==
    p_pc = "done" =>
        /\ p_cmd \in DualUseGetters => p_res.ok
        /\ (\E v \in DualUseSetters : p_cmd = v \o <<" ", "1">>) => p_res.ok

(***************************************************************************)
(* C24: while the audit sink is not initialised, the audit_log calls of    *)
(* the handler change nothing (no event recorded, queue empty, no drop     *)
(* counted, file empty, no writer), and the handler serves the client as   *)
(* it does with audit: every reply answers its frame, rejected commands    *)
(* get the rejection with the policy reason and never reach the session,   *)
(* and the handler that left its main loop has deregistered the client.    *)
(***************************************************************************)
AuditUntouched ==
    /\ a_log = <<>> /\ a_enq = <<>> /\ a_q = <<>>
    /\ a_dropped = 0
    /\ a_file = <<>> /\ a_synced = 0 /\ a_flush_count = 0 /\ a_drained = 0
    /\ ~a_task /\ a_writer = "none" /\ a_stop = "idle"

Served(c) ==
    /\ Len(Replies(c)) <= Len(h_recv[c])
    /\ Len(h_recv[c]) <= Len(Replies(c)) + 1
    /\ \A i \in DOMAIN Replies(c) :
          /\ ReplyTo(h_recv[c][i], Replies(c)[i])
          /\ (h_recv[c][i].type = "exec" /\ ~is_allowed(h_recv[c][i].cmd).ok) =>
                Replies(c)[i] = Rejected(h_recv[c][i].id, is_allowed(h_recv[c][i].cmd))
    /\ (hpc[c] = "exited" /\ hsent[c] # <<>>) => c \notin hub_clients
    /\ hpc[c] \notin {"new", "exited"} => c \in hub_clients

C24_AuditLogFailOpen ==
    /\ ~audit_inited => AuditUntouched
    /\ \A c \in Handlers : Served(c)
    /\ h_sess = SelectSeq(h_frames, LAMBDA f : is_allowed(f.cmd).ok)

C24_Witness ==
    \E c \in Handlers :
        /\ ~audit_inited
        /\ hpc[c] = "exited"
        /\ c \notin hub_clients
        /\ Len(hsent[c]) = 3
        /\ hsent[c][1].name = "getall"
        /\ hsent[c][2].type = "result" /\ hsent[c][2].ok
        /\ hsent[c][3].type = "result" /\ ~hsent[c][3].ok /\ hsent[c][3].reason.text # ""

(***************************************************************************)
(* C26: the dict parse_getall_block returns has exactly the lowercased     *)
(* keys of the key: value lines of the text; each entry has raw (for the   *)
(* last line of its key, the stripped text after the first colon); it has  *)
(* value iff raw is a number [-+]digits[.digits] followed by optional      *)
(* whitespace and an optional unit of letters, % and /; the value is an    *)
(* int when the number is a whole number (it has no decimal other than 0), *)
(* else a float; it has unit iff such a unit follows the number, and the   *)
(* unit is that text.                                                      *)
(***************************************************************************)
IsNumberText(s) ==
    LET body == IF s # <<>> /\ s[1] \in {"-", "+"} THEN Tail(s) ELSE s
        dots == {i \in DOMAIN body : body[i] = "."}
    IN  /\ body # <<>>
        /\ \A i \in DOMAIN body : body[i] \in Digits \cup {"."}
        /\ Cardinality(dots) <= 1
        /\ \A i \in dots : 1 < i /\ i < Len(body)

IsUnitText(s) == s # <<>> /\ \A i \in DOMAIN s : s[i] \in UnitChars

\* the lengths n at which raw splits into a number and an optional unit
NumberUnitSplits(raw) ==
    {n \in 1 .. Len(raw) :
        /\ IsNumberText(SubSeq(raw, 1, n))
        /\ LET r == Strip(SubSeq(raw, n + 1, Len(raw))) IN r = <<>> \/ IsUnitText(r)}

\* the number text denotes a whole number: it has no decimal other than 0
NumberIntegral(num) ==
    \A i \in DOMAIN num :
        (Contains(num, ".") /\ i > IndexOf(num, ".")) => DigitVal(num[i]) = 0

\* the value v is an int when the number text num denotes a whole number,
\* else a float
ValueIs(v, num) == IF NumberIntegral(num) THEN v.type = "int" ELSE v.type = "float"

C26_EntryShape ==
    ga_pc = "done" =>
        LET lines == splitlines(RemoveCR(ga_text))
            kv == {i \in DOMAIN lines : ~GetAllSkipped(lines[i])}
        IN  /\ DOMAIN ga_out = {GetAllKey(lines[i]) : i \in kv}
            /\ \A i \in kv :
                  LET k == GetAllKey(lines[i])
                      e == ga_out[k]
                      splits == NumberUnitSplits(e.raw)
                  IN  /\ "raw" \in DOMAIN e
                      /\ DOMAIN e \subseteq {"raw", "value", "unit"}
                      /\ (\A j \in kv : j > i => GetAllKey(lines[j]) # k)
                            => e.raw = GetAllRaw(lines[i])
                      /\ ("value" \in DOMAIN e) <=> (splits # {})
                      /\ ("unit" \in DOMAIN e) => ("value" \in DOMAIN e)
                      /\ \A n \in splits :
                            LET unit == Strip(SubSeq(e.raw, n + 1, Len(e.raw)))
                            IN  /\ ValueIs(e.value, SubSeq(e.raw, 1, n))
                                /\ ("unit" \in DOMAIN e) <=> (unit # <<>>)
                                /\ unit # <<>> => e.unit = unit

(***************************************************************************)
(* C27: parse_status_block raises on no text, and a line that starts with  *)
(* the prefix of a field and does not match the field's pattern adds       *)
(* nothing: the result is the result for the text without that line (the   *)
(* field is absent unless another line gives it, and every other field is  *)
(* as it would be without the line).                                       *)
(***************************************************************************)
\* the prefix of each field's line and the pattern the line has to match
StatusFieldPatterns ==
    << <<<<"P", "o", "w", "e", "r", "-", "O", "N", " ", "t", "i", "m", "e", ":">>, PatPowerOnTime>>,
       <<<<"R", "T", "C", " ", "t", "i", "m", "e", ":">>, PatRtcTime>>,
       <<<<"W", "o", "r", "k", " ", "M", "o", "d", "e", ":">>, PatWorkMode>>,
       <<<<"W", "o", "r", "k", " ", "S", "t", "a", "t", "e", ":">>, PatWorkState>>,
       <<<<"l", "a", "s", "e", "r", " ", "S", "t", "a", "t", "e", ":">>, PatLaserState>>,
       <<<<"p", "u", "l", "s", "e", "_", "o", "n", ":">>, PatPulseOn>>,
       <<<<"p", "u", "l", "s", "e", "_", "o", "f", "f", ":">>, PatPulseOff>>,
       <<<<"w", "a", "v", "e", " ", "s", "t", "a", "t", "e", ":">>, PatWave>>,
       <<<<"I", "O", " ", "s", "t", "a", "t", "e", ":">>, PatIoState>>,
       <<<<"P", "o", "w", "e", "r", " ", "O", "u", "t", ":">>, PatPowerOut>>,
       <<<<"P", "o", "w", "e", "r", " ", "P", "a", "r", "a", "m", ":">>, PatPowerParam>>,
       <<<<"P", "o", "w", "e", "r", " ", "d", "r", "i", "v", "e", ":">>, PatPowerDrive>>,
       <<<<"D", "r", "i", "v", "e", " ", "v", "o", "l", "t", "1", "~", "2", ":">>, PatDriveVolt>>,
       <<<<"D", "r", "i", "v", "e", " ", "c", "u", "r", "r", "e", "n", "t", "1", "~", "4", ":">>, PatDriveCurrent>>,
       <<<<"E", "n", "e", "r", "g", "y", ":">>, PatEnergy>>,
       <<<<"P", "i", "l", "o", "t", " ", "S", "t", "a", "t", "e", ":">>, PatPilot>>,
       <<<<"P", "D", " ", "V", "o", "l", "t", "a", "g", "e", ":">>, PatPd>>,
       <<<<"N", "T", "C", "1", "~", "4", ":">>, PatNtc14>>,
       <<<<"N", "T", "C", "5", "~", "8", ":">>, PatNtc58>>,
       <<<<"P", "r", "e", "s", "s", "u", "r", "e", ":">>, PatPressure>>,
       <<<<"A", "i", "r", "H", "R", ":">>, PatAirHR>>,
       <<<<"A", "i", "r", "T", ":">>, PatAirT>>,
       <<<<"T", "e", "m", "p", ":">>, PatTemp>>,
       <<<<"D", "e", "w", ":">>, PatDew>>,
       <<<<"W", "A", "R", "N", "I", "N", "G", "(">>, PatWarning>>,
       <<<<"E", "R", "R", "O", "R", "(">>, PatError>>,
       <<<<"L", "O", "C", "K", "(">>, PatLock>>,
       <<<<"T", "E", "M", ":">>, PatTem>> >>


\* the line starts with a field's prefix and, taken alone, does not match
\* the field's pattern
NonMatchingLine(l) ==
    \E f \in DOMAIN StatusFieldPatterns :
        /\ StartsWith(l, StatusFieldPatterns[f][1])
        /\ ~ReSearch(StatusFieldPatterns[f][2], l).ok

\* the lines between the newlines of t
RECURSIVE NewlineLines(_)
NewlineLines(t) ==
    IF ~Contains(t, "\n") THEN <<t>>
    ELSE <<SubSeq(t, 1, IndexOf(t, "\n") - 1)>>
             \o NewlineLines(SubSeq(t, IndexOf(t, "\n") + 1, Len(t)))

RECURSIVE JoinNewline(_)
JoinNewline(ls) ==
    IF ls = <<>> THEN <<>>
    ELSE IF Len(ls) = 1 THEN ls[1]
    ELSE ls[1] \o <<"\n">> \o JoinNewline(Tail(ls))

WithoutLine(ls, i) == SubSeq(ls, 1, i - 1) \o SubSeq(ls, i + 1, Len(ls))

SameDict(a, b) == DOMAIN a = DOMAIN b /\ \A k \in DOMAIN a : a[k] = b[k]

C27_NonMatchingLineElided ==
    ps_pc = "done" =>
        LET lines == NewlineLines(RemoveCR(ps_text))
        IN  /\ ~ps_out.raised
            /\ \A i \in DOMAIN lines :
                  NonMatchingLine(lines[i]) =>
                      LET r == parse_status_block(JoinNewline(WithoutLine(lines, i)))
                      IN  ~r.raised /\ SameDict(ps_out.out, r.out)

\* the second part alone, for the texts on which nothing is raised
C27_ElidedUnlessRaised ==
    (ps_pc = "done" /\ ~ps_out.raised) =>
        LET lines == NewlineLines(RemoveCR(ps_text))
        IN  \A i \in DOMAIN lines :
                NonMatchingLine(lines[i]) =>
                    LET r == parse_status_block(JoinNewline(WithoutLine(lines, i)))
                    IN  ~r.raised => SameDict(ps_out.out, r.out)

\* the first part alone
C27_NeverRaises == ps_pc = "done" => ~ps_out.raised

(***************************************************************************)
(* C28: entering, the handler registers its client with the hub, logs the  *)
(* connect event and calls exec("getall") (one step, in this order, once   *)
(* it has the hub lock); until that exec has ended nothing is sent and no  *)
(* frame is read; then a getall event with the output is sent if the exec  *)
(* returned, a getall_error event if it raised; a handler that reads a     *)
(* frame, or stands anywhere in its loop, has sent exactly one of them.    *)
(***************************************************************************)
IsGreeting(m) == m.type = "event" /\ m.name \in {"getall", "getall_error"}
Greetings(c) == SelectSeq(hsent[c], IsGreeting)
ConnectEvents(c) == {i \in DOMAIN a_log : a_log[i].kind = "connect" /\ a_log[i].who = c}
Entering == {"new", "add_wait"}
GreetStates == Entering \cup {"greet_exec", "greet_send", "greet_err_send"}

C28_GreetingState ==
    \A c \in Handlers :
        /\ hpc[c] \in Entering =>
              /\ c \notin hub_clients
              /\ ConnectEvents(c) = {}
              /\ epc[c] = "idle"
        /\ hpc[c] \notin Entering \cup {"exited"} => Cardinality(ConnectEvents(c)) = 1
        /\ Cardinality(ConnectEvents(c)) <= 1
        /\ hpc[c] = "greet_exec" =>
              /\ ecmd[c] = GETALL
              /\ epc[c] # "idle"
        /\ hpc[c] \in {"greet_send", "greet_err_send"} =>
              /\ IsGreeting(hreply[c])
              /\ epc[c] = "idle"
        /\ hpc[c] \in GreetStates => hsent[c] = <<>> /\ h_recv[c] = <<>>
        /\ (hpc[c] \notin GreetStates \cup {"exited"} \/ h_recv[c] # <<>>) =>
              Len(Greetings(c)) = 1
        /\ Len(Greetings(c)) <= 1
        /\ \A i \in DOMAIN a_log :
              (a_log[i].who = c /\ a_log[i].kind # "connect") =>
                  \E j \in ConnectEvents(c) : j < i

C28_GreetingStep ==
    \A c \in Handlers :
        /\ (hpc[c] \in Entering /\ hpc'[c] \notin Entering) =>
              \/ /\ hpc'[c] = "greet_exec"
                 /\ c \in hub_clients'
                 /\ Len(a_log') = Len(a_log) + 1
                 /\ a_log'[Len(a_log')].kind = "connect" /\ a_log'[Len(a_log')].who = c
                 /\ ecmd'[c] = GETALL /\ epc[c] = "idle" /\ epc'[c] # "idle"
              \/ /\ hpc[c] = "add_wait"
                 /\ hpc'[c] = "exited"
                 /\ UNCHANGED <<hub_clients, a_log, epc, hsent>>
        /\ (hpc[c] = "greet_exec" /\ hpc'[c] # "greet_exec") =>
              \/ epc[c] = "ret" /\ hpc'[c] = "greet_send" /\ hreply'[c] = GetallEvent(eret[c])
              \/ epc[c] = "raised" /\ hpc'[c] = "greet_err_send" /\ hreply'[c] = GetallError
              \/ hpc'[c] = "exited"
        /\ (Len(hsent'[c]) > Len(hsent[c]) /\ hpc[c] \in GreetStates) =>
              /\ hsent'[c] = <<hreply[c]>>
              /\ IsGreeting(hreply[c])
              /\ hreply[c].name = "getall" => hpc[c] = "greet_send"
        /\ Len(h_recv'[c]) > Len(h_recv[c]) => Len(Greetings(c)) = 1

C28_GreetingBeforeFrames == []C28_GreetingState /\ [][C28_GreetingStep]_vars

C28_Witness ==
    \E c \in Handlers :
        /\ h_recv[c] # <<>>
        /\ hsent[c] # <<>>
        /\ hsent[c][1].name = "getall"
        /\ c \in hub_clients

C28_WitnessError ==
    \E c \in Handlers :
        /\ h_recv[c] # <<>>
        /\ hsent[c] # <<>>
        /\ hsent[c][1] = GetallError

(***************************************************************************)
(* C29: when the session lock is free and the exec that used the session   *)
(* last has returned, the receive buffer is empty, and it stays as it is   *)
(* while the lock stays free; while an exec reads until the prompt the     *)
(* buffer is only appended to, and only when it holds a prompt does the    *)
(* read end and the buffer get cut or cleared.                             *)
(***************************************************************************)
\* the exec that read or wrote last has returned and its caller has not yet
\* taken the result
LastExecReturned ==
    /\ iolog # <<>>
    /\ \E t \in Tasks : epc[t] = "ret" /\ eid[t] = iolog[Len(iolog)]

IsPrefixOf(a, b) == Len(a) <= Len(b) /\ SubSeq(b, 1, Len(a)) = a

C29_EmptyAfterSuccess == (msh_lock = NoTask /\ LastExecReturned) => rx_buf = <<>>

C29_BufferStep ==
    /\ (msh_lock = NoTask /\ msh_lock' = NoTask) => rx_buf' = rx_buf
    /\ \A t \in Tasks :
          /\ (epc[t] = "cmd_r" /\ epc'[t] = "ret") => rx_buf' = <<>>
          /\ InSection(t) =>
                \/ /\ IsPrefixOf(rx_buf, rx_buf')
                   /\ rx_buf' # rx_buf => epc'[t] = epc[t] /\ ~HasPrompt(rx_buf)
                \/ /\ HasPrompt(rx_buf)
                   /\ epc'[t] # epc[t]
                   /\ epc'[t] \in {"resync_r", "cmd_r", "ret"}

C29_BufferDiscipline == []C29_EmptyAfterSuccess /\ [][C29_BufferStep]_vars

C29_Witness ==
    /\ msh_lock = NoTask
    /\ LastExecReturned
    /\ rx_buf = <<>>
    /\ \E t, u \in Tasks :
          /\ epc[t] = "ret" /\ eid[t] = iolog[Len(iolog)] /\ Len(eret[t]) >= 2
          /\ epc[u] = "raised"

(***************************************************************************)
(* C30: when every exec that wrote to the device got as far as its command *)
(* line (as every successful exec does; the exec holding the lock may      *)
(* still be on its way), the writes are: one bootstrap newline, then for   *)
(* each exec, in the order in which the execs took the lock, a resync      *)
(* newline and the exec's stripped command followed by a newline; nothing  *)
(* else.                                                                   *)
(***************************************************************************)
BlockStart(i) == i = 1 \/ wlog[i - 1].e # wlog[i].e
IsCommandLine(i) == wlog[i].line # NL

\* the execs that wrote, in the order of their first write
RECURSIVE Owners(_)
Owners(w) ==
    IF w = <<>> THEN <<>>
    ELSE IF Len(w) > 1 /\ w[Len(w) - 1].e = w[Len(w)].e THEN Owners(SubSeq(w, 1, Len(w) - 1))
    ELSE Append(Owners(SubSeq(w, 1, Len(w) - 1)), w[Len(w)].e)

\* every exec that wrote has written its command line, but for the exec
\* that holds the lock
AllWroteCommand ==
    \A i \in DOMAIN wlog :
        \/ \E j \in DOMAIN wlog : wlog[j].e = wlog[i].e /\ IsCommandLine(j)
        \/ msh_lock # NoTask /\ eid[msh_lock] = wlog[i].e

C30_WritesOfExecs ==
    AllWroteCommand =>
        /\ Owners(wlog) = iolog
        /\ \A i, j \in DOMAIN wlog : (i < j /\ wlog[i].e = wlog[j].e) => j - i <= 2
        /\ \A i \in DOMAIN wlog :
              /\ i = 1 => wlog[i].line = NL
              /\ i = 2 => wlog[i].line = NL /\ wlog[i].e = wlog[1].e
              /\ i = 3 => IsCommandLine(i) /\ wlog[i].e = wlog[1].e
              /\ i > 3 => (BlockStart(i) <=> ~IsCommandLine(i))
              /\ IsCommandLine(i) => wlog[i].line = Strip(wlog[i].line) \o NL
        /\ \A t \in Tasks :
              ecw[t] > 0 => wlog[ecw[t]] = [e |-> eid[t], line |-> Strip(ecmd[t]) \o NL]

C30_WriteStep ==
    Len(wlog') > Len(wlog) =>
        /\ Len(wlog') = Len(wlog) + 1
        /\ SubSeq(wlog', 1, Len(wlog)) = wlog
        /\ msh_lock' \in Tasks
        /\ wlog'[Len(wlog')].e = eid'[msh_lock']
        /\ wlog'[Len(wlog')].line # NL =>
              /\ wlog'[Len(wlog')].line = Strip(ecmd[msh_lock]) \o NL
              /\ wlog[Len(wlog)] = [e |-> eid[msh_lock], line |-> NL]

C30_DeviceWrites == []C30_WritesOfExecs /\ [][C30_WriteStep]_vars

C30_Witness ==
    /\ AllWroteCommand
    /\ msh_lock = NoTask
    /\ Len(wlog) = 5
    /\ wlog[3].line # wlog[5].line
    /\ \E t \in Tasks : epc[t] = "ret" /\ ecmd[t] = PADDED /\ ecw[t] = 5

(***************************************************************************)
(* C31: bootstrap runs inside exec, by the task that holds the lock; once  *)
(* it has succeeded it never runs again, and until then every exec runs    *)
(* it; when it succeeds the buffer is cut after its first prompt.          *)
(***************************************************************************)
BootstrapSucceeds == ~bootstrapped /\ bootstrapped'

\* rest is what follows the first prompt of buf
FirstPromptCut(buf, rest) ==
    \E i \in DOMAIN buf :
        /\ buf[i].k = "prompt"
        /\ \A j \in 1 .. i - 1 : buf[j].k # "prompt"
        /\ rest = SubSeq(buf, i + 1, Len(buf))

\* an exec starts its first read: the bootstrap read until bootstrap has
\* succeeded, the resync read afterwards, each after writing one newline
C31_LazyStep ==
    \A t \in Tasks :
        (epc[t] \in {"idle", "wait"} /\ epc'[t] \in ReadStates) =>
            /\ epc'[t] = IF bootstrapped THEN "resync_r" ELSE "boot_r"
            /\ msh_lock' = t
            /\ wlog' = Append(wlog, [e |-> eid'[t], line |-> NL])

\* bootstrap succeeds in the exec that holds the lock, on a buffer with a
\* prompt, and is never undone
C31_OnceStep ==
    /\ bootstrapped => bootstrapped'
    /\ BootstrapSucceeds =>
          \E t \in Tasks : msh_lock = t /\ epc[t] = "boot_r" /\ epc'[t] = "resync_r"
    /\ \A t \in Tasks : (epc[t] = "boot_r" /\ epc'[t] = "resync_r") => BootstrapSucceeds

C31_DiscardsToFirstPrompt ==
    [][C31_LazyStep /\ C31_OnceStep
         /\ (BootstrapSucceeds => FirstPromptCut(rx_buf, rx_buf'))]_vars

(***************************************************************************)
(* C32: while the writer waits on the queue, the written lines that are    *)
(* not yet synced are those counted since the last fsync, fewer than       *)
(* flush_every; a turn of the writer that brings the count to flush_every  *)
(* syncs the whole file before the next read; once the writer has exited,  *)
(* and so once stop() has returned, the whole file is synced.              *)
(***************************************************************************)
Unsynced == Len(a_file) - a_synced

C32_UnsyncedWhileWaiting ==
    a_writer = "run" =>
        /\ Unsynced = a_flush_count
        /\ Unsynced <= a_flush_every - 1

C32_SyncedAfterStop ==
    /\ a_writer = "exited" => Unsynced = 0
    /\ a_stop = "returned" => a_writer = "exited" /\ Unsynced = 0

\* a line is written by a writer that goes on: the file is synced in the
\* same turn exactly when this line is the flush_every-th since the last sync
C32_SyncStep ==
    (a_writer = "run" /\ a_writer' = "run" /\ Len(a_file') > Len(a_file)) =>
        /\ Len(a_file') = Len(a_file) + 1
        /\ IF Unsynced + 1 = a_flush_every
           THEN a_synced' = Len(a_file')
           ELSE a_synced' = a_synced

C32_FlushEvery ==
    [](C32_UnsyncedWhileWaiting /\ C32_SyncedAfterStop) /\ [][C32_SyncStep]_vars

\* stop() has returned after three lines were written with flush_every = 2
C32_Witness ==
    /\ a_stop = "returned"
    /\ a_flush_every = 2
    /\ Len(a_file) = 3
    /\ a_synced = 3

(***************************************************************************)
(* C33: the slot a len part of a feeder_mode line takes                    *)
(***************************************************************************)
\* the lines of the text that parse_process_block handles as feeder_mode lines
FeederModeLines(text) ==
    SelectSeq(ProcessLines(RemoveCR(text)), LAMBDA l : StartsWith(Lower(l), <<"f", "e", "e", "d", "e", "r", "_", "m", "o", "d", "e", ":">>))

\* no other line of the text sets feeder_out_len or feeder_in_len
OneFeederLine(text) ==
    /\ Len(FeederModeLines(text)) = 1
    /\ \A i \in DOMAIN ProcessLines(RemoveCR(text)) :
          LET l == Lower(ProcessLines(RemoveCR(text))[i]) IN
          ~StartsWith(l, <<"f", "e", "e", "d", "e", "r", "_", "c", "y", "c", "l", "e", ":">>) /\ ~StartsWith(l, <<"s", "m", "o", "o", "t", "h", "n", "e", "s", "s", ":">>)

HasKey(part, keys) == Contains(part, ":") /\ PartKey(part) \in keys

\* the slot the claim gives to part i of the parts of a feeder_mode line:
\* that of the nearest speed or len key to its left when that is a speed
\* key, none when it is a len (the speed key is consumed) or there is none
C33_SlotOf(parts, i) ==
    LET before == {j \in 1 .. i - 1 : HasKey(parts[j], {<<"o", "u", "t", "_", "s", "p", "e", "e", "d">>, <<"i", "n", "_", "s", "p", "e", "e", "d">>, <<"l", "e", "n">>})}
        last == CHOOSE j \in before : \A o \in before : o <= j
    IN  IF ~HasKey(parts[i], {<<"l", "e", "n">>}) \/ before = {} THEN "none"
        ELSE IF PartKey(parts[last]) = <<"o", "u", "t", "_", "s", "p", "e", "e", "d">> THEN "out"
        ELSE IF PartKey(parts[last]) = <<"i", "n", "_", "s", "p", "e", "e", "d">> THEN "in"
        ELSE "none"

\* what the claim leaves in the field of a slot: the value of the last len
\* part of the slot whose value _parse_num gives as an int, nothing when
\* there is none
C33_SlotHolds(parts, slot, field, out) ==
    LET whole == {i \in DOMAIN parts : /\ C33_SlotOf(parts, i) = slot
                                       /\ parse_num(PartValue(parts[i])).type = "int"}
        last == CHOOSE i \in whole : \A o \in whole : o <= i
    IN  IF whole = {} THEN field \notin DOMAIN out
        ELSE field \in DOMAIN out /\ out[field] = parse_num(PartValue(parts[last]))

\* C33: after parse_process_block ran on a text with one feeder_mode line
\* (and no feeder_cycle line), feeder_out_len holds the value of a len part
\* whose nearest speed key to the left is out_speed, feeder_in_len that of one
\* whose nearest speed key is in_speed, with no other len part between the
\* speed key and it; every other len part is ignored. A value goes through
\* the int setter, which stores what _parse_num gives as an int.
C33_FeederLenSlots ==
    (pp_pc = "done" /\ OneFeederLine(pp_text)) =>
        LET parts == SplitAt(FeederModeLines(pp_text)[1], ",") IN
        /\ C33_SlotHolds(parts, "out", "feeder_out_len", pp_out)
        /\ C33_SlotHolds(parts, "in", "feeder_in_len", pp_out)

\* the line of the repository's test: 13 goes to the out slot, 14 to the in
\* slot, and the third len, after a consumed in_speed, is ignored
C33_Witness ==
    /\ pp_pc = "done"
    /\ pp_text = FeederSample
    /\ C33_SlotOf(SplitAt(pp_text, ","), 6) = "none"
    /\ pp_out["feeder_out_len"] = PyInt(FALSE, <<1, 3>>)
    /\ pp_out["feeder_in_len"] = PyInt(FALSE, <<1, 4>>)

(***************************************************************************)
(* C34: the lines an exec frame makes the session write to the device      *)
(***************************************************************************)
\* a line ends in its only newline and holds no carriage return and no
\* semicolon, and its first word in lower case is not a blocked verb
C34_SafeLine(line) ==
    /\ line # <<>>
    /\ line[Len(line)] = "\n"
    /\ \A i \in 1 .. Len(line) - 1 : line[i] \notin {"\n", "\r", ";"}
    /\ normalize_verb(SubSeq(line, 1, Len(line) - 1)) \notin BLOCKED_VERBS

\* C34: every line written to the device by the handlers is the newline of
\* bootstrap or resync, the greeting's getall, or the stripped cmd of an exec
\* frame handed to the session, followed by a newline; the line has no other
\* newline, no carriage return and no semicolon, and its first word in lower
\* case is not a blocked verb. Once the exec call made for a frame reads the
\* answer, the line it wrote last is the stripped cmd of that frame.
C34_ExecLines ==
    /\ \A i \in DOMAIN wlog :
          /\ \/ wlog[i].line \in {NL, GETALL \o NL}
             \/ \E j \in DOMAIN h_sess : wlog[i].line = Strip(h_sess[j].cmd) \o NL
          /\ C34_SafeLine(wlog[i].line)
    /\ \A c \in Handlers :
          (hpc[c] = "exec_wait" /\ epc[c] = "cmd_r") =>
              wlog[ecw[c]] = [e |-> eid[c], line |-> Strip(hframe[c].cmd) \o NL]

\* the frame with the padded cmd " Status\t" made the session write "Status\n"
C34_Witness ==
    /\ \E c \in Handlers : hpc[c] = "exec_wait" /\ epc[c] = "cmd_r"
    /\ \E i \in DOMAIN h_sess : h_sess[i].cmd = <<" ", "S", "t", "a", "t", "u", "s", "\t">>
    /\ \E i \in DOMAIN wlog : wlog[i].e >= 2 /\ wlog[i].line = <<"S", "t", "a", "t", "u", "s", "\n">>

(***************************************************************************)
(* C35: the session lock and the hub lock are never held together          *)
(***************************************************************************)
\* task t holds the session lock or waits for it
InSessionLock(t) == msh_lock = t \/ \E i \in DOMAIN msh_waiters : msh_waiters[i] = t

\* task t holds the hub lock or waits for it
InHubLock(t) == hub_lock = t \/ \E i \in DOMAIN hub_waiters : hub_waiters[i] = t

\* task t is where its next step calls add, remove or broadcast of the hub,
\* which take the hub lock (and, when it is free, give it back in that step)
AtHubCall(t) ==
    IF t \in LoopTasks THEN l_pc[t] = "exec" /\ epc[t] \in {"ret", "raised"}
    ELSE hpc[t] \in {"new", "finally"}

\* C35: in every state of the server no task holds the session lock and the
\* hub lock together; a task that holds or awaits one of them neither holds
\* nor awaits the other, and a task about to call the hub is out of the
\* session lock: no task waits for one lock while it keeps the other.
C35_OneLockAtATime ==
    \A t \in HandlerTasks :
        /\ ~(msh_lock = t /\ hub_lock = t)
        /\ ~(InSessionLock(t) /\ InHubLock(t))
        /\ AtHubCall(t) => ~InSessionLock(t)

\* the poll loop holds the hub lock in a broadcast while a handler reads the
\* device under the session lock
C35_Witness ==
    /\ hub_lock = Poll
    /\ b_pc[Poll] = "send"
    /\ \E c \in Handlers : msh_lock = c /\ InSection(c)

(***************************************************************************)
(* C36: the greeting and the frames of the poll loop                       *)
(***************************************************************************)

\* C36 as stated: whenever a frame has been sent to a client, the first frame
\* sent to it was its getall or getall_error greeting: a frame of a broadcast
\* has reached the client only once the handler has sent the greeting.
C36_GreetingFirst ==
    \A c \in Handlers :
        /\ hsent[c] # <<>> => IsGreeting(hsent[c][1])
        /\ s_recv[c] # <<>> => hsent[c] # <<>>

\* C36 amended: the first frame the handler itself sends to its client is its
\* getall or getall_error greeting, and a frame of a broadcast reaches a
\* client only after hub.add registered it, which is before the greeting.
C36_HandlerGreetsFirst ==
    \A c \in Handlers :
        /\ hsent[c] # <<>> => IsGreeting(hsent[c][1])
        /\ s_recv[c] # <<>> => hpc[c] \notin {"new", "add_wait"}

\* a client that got its greeting from the handler and a frame of a broadcast
\* made while its handler was still waiting for exec("getall")
C36_Witness ==
    \E c \in Handlers :
        /\ Len(hsent[c]) = 1
        /\ IsGreeting(hsent[c][1])
        /\ \E i \in DOMAIN s_recv[c] : s_recv[c][i].id = 1
        /\ Len(l_log) = 1
        /\ hnframes[c] = 0

(***************************************************************************)
(* C37: a drop leaves no audit_drop event                                  *)
(***************************************************************************)
IsDrop(e) == e.kind = "audit_drop"

\* C37: in every state neither the queue nor the audit file holds an
\* audit_drop event: the second put of a log() call that found the queue full
\* finds it full again. The drops are in the counter alone, which counts the
\* log() calls whose event was not put on the queue.
C37_NoDropEvent ==
    /\ \A i \in DOMAIN a_q : ~IsDrop(a_q[i])
    /\ \A i \in DOMAIN a_file : ~IsDrop(a_file[i])
    /\ a_dropped = Len(a_log) - Len(a_enq)

\* events were dropped on a full queue while the writer had written others
C37_Witness ==
    /\ a_dropped >= 2
    /\ Len(a_q) = a_max_queue
    /\ a_file # <<>>
    /\ \A i \in DOMAIN a_q : ~IsDrop(a_q[i])

====
